---- MODULE Spec2Model ----
(***************************************************************************)
(* Table Layout & Resize Engine of obsidian-table-drag.                    *)
(*                                                                         *)
(* Pixel quantities are integers (CSS pixels).  A ratio vector is kept as  *)
(* the exact fractions nums[i] / den, reduced by the common divisor, so    *)
(* two vectors are equal exactly when the fractions are equal.             *)
(***************************************************************************)
EXTENDS Integers, Sequences, FiniteSets, TLC

VARIABLES
  call, ret,            \* a call of a pure geometry function and its result
  dataStore,            \* StorageManager.dataStore: tables (key -> object) in insertion order
  heap,                 \* the TableSizes objects the store's entries refer to
  disk,                 \* the payload held by host persistence (data.json)
  inflight,             \* saveData calls issued and not yet completed
  now,                  \* Date.now(): later at every commit than at the one before
  lastOp,               \* history: the operation that ran last
  lastResolve,          \* history: the latest findOrMigrateToCanonicalKey call
  used,                 \* history: commits, renames and reloads so far
  migrated,             \* history: canonical keys a legacy record was copied to
  lastCommit,           \* history: the latest record a resize commit stored
  durable,              \* history: the commit held by the payload on disk
  table,                \* one rendered table element: attributes, styles, children, closures
  env,                  \* the layout around it: natural table width, readable line width
  sched,                \* BreakoutManager: breakoutRAF, pending frames and timers, retry count
  settings,             \* StorageManager.settings as the handlers read them
  drag,                 \* the closure variables of the handle whose drag is active
  event                 \* history: the latest pointer, double-click or key event delivered

geomVars == <<call, ret>>
storeVars == <<dataStore, heap, disk, inflight, now>>
histVars == <<lastOp, lastResolve, migrated, lastCommit, durable, used>>
domVars == <<table, env, sched>>
uiVars == <<settings, drag, event>>
vars == <<geomVars, storeVars, histVars, domVars, uiVars>>

(***************************************************************************)
(* Arithmetic helpers                                                      *)
(***************************************************************************)
Max(a, b) == IF a >= b THEN a ELSE b
Min(a, b) == IF a <= b THEN a ELSE b
Abs(a) == IF a < 0 THEN 0 - a ELSE a

RECURSIVE SumSeq(_)
SumSeq(s) == IF s = <<>> THEN 0 ELSE Head(s) + SumSeq(Tail(s))

RECURSIVE Gcd(_, _)
Gcd(a, b) == IF b = 0 THEN a ELSE Gcd(b, a % b)

RECURSIVE GcdSeq(_)
GcdSeq(s) == IF s = <<>> THEN 0 ELSE Gcd(Head(s), GcdSeq(Tail(s)))

\* Math.round(n / d) for d > 0: the nearest integer, halves towards +infinity.
MathRound(n, d) == (2 * n + d) \div (2 * d)

\* Math.floor(n / d) for d > 0.
MathFloor(n, d) == n \div d

(***************************************************************************)
(* Geometry utilities                                                      *)
(***************************************************************************)
roundToStep(v, step) == IF step > 0 THEN MathRound(v, step) * step ELSE v

\* Mutant: the snapped value is not clamped again.
applyDeltaWithSnap_NoReclamp(left, right, total, dx, minPx, step, disableSnap) ==
  LET nl1 == Max(minPx, Min(total - minPx, left + dx))
      nl2 == IF ~disableSnap /\ step > 0 THEN roundToStep(nl1, step) ELSE nl1
  IN  [newLeft |-> nl2, newRight |-> total - nl2]

\* Mutant: snap first, clamp once afterwards.
applyDeltaWithSnap_SnapFirst(left, right, total, dx, minPx, step, disableSnap) ==
  LET nl0 == left + dx
      nl1 == IF ~disableSnap /\ step > 0 THEN roundToStep(nl0, step) ELSE nl0
      nl2 == Max(minPx, Min(total - minPx, nl1))
  IN  [newLeft |-> nl2, newRight |-> total - nl2]

applyDeltaWithSnap(left, right, total, dx, minPx, step, disableSnap) ==
  LET nl0 == left + dx
      nl1 == Max(minPx, Min(total - minPx, nl0))
      nl2 == IF ~disableSnap /\ step > 0
             THEN Max(minPx, Min(total - minPx, roundToStep(nl1, step)))
             ELSE nl1
  IN  [newLeft |-> nl2, newRight |-> total - nl2]

\* A ratio vector: ratio i is nums[i] / den.
Reduce(nums, den) ==
  LET g == Gcd(GcdSeq(nums), den)
  IN  IF g <= 1 THEN [nums |-> nums, den |-> den]
      ELSE [nums |-> [i \in DOMAIN nums |-> nums[i] \div g], den |-> den \div g]

\* Mutant: the sum floors each entry at 1, the numerators do not.
normalizeRatios_RawNumerator(px) ==
  LET sum == SumSeq([i \in DOMAIN px |-> Max(1, px[i])])
  IN  IF sum <= 0 THEN Reduce([i \in DOMAIN px |-> 1], Len(px))
      ELSE [nums |-> px, den |-> sum]

normalizeRatios(px) ==
  LET m == [i \in DOMAIN px |-> Max(1, px[i])]
      sum == SumSeq(m)
  IN  IF sum <= 0 THEN Reduce([i \in DOMAIN px |-> 1], Len(px))
      ELSE Reduce(m, sum)

\* Math.round(ratio_i * w)
RatioTimesRound(r, i, w) == MathRound(r.nums[i] * w, r.den)

\* Scale mode: every start width times targetTotal / totalStart, floored, never
\* below the minimum.
scaleWidths(startPx, targetTotal, minPx) ==
  LET totalStart == SumSeq(startPx)
  IN  [i \in DOMAIN startPx |->
         Max(minPx, IF totalStart > 0
                    THEN MathFloor(startPx[i] * targetTotal, totalStart)
                    ELSE startPx[i])]

\* Edge mode: the delta goes to the first and the last column.
edgeWidths(startPx, targetTotal, minPx) ==
  LET n == Len(startPx)
      delta == targetTotal - SumSeq(startPx)
      half == MathRound(delta, 2)
      n1 == [startPx EXCEPT ![1] = Max(minPx, startPx[1] + half)]
      n2 == [n1 EXCEPT ![n] = Max(minPx, n1[n] + (delta - half))]
      sum == SumSeq(n2)
  IN  IF sum # targetTotal
      THEN [n2 EXCEPT ![n] = Max(minPx, n2[n] + (targetTotal - sum))]
      ELSE n2

computeNext(startPx, targetTotal, mode, minPx) ==
  IF mode = "scale"
  THEN LET next == scaleWidths(startPx, targetTotal, minPx)
           n == Len(startPx)
           diff == targetTotal - SumSeq(next)
       IN  IF Abs(diff) >= 1
           THEN [next EXCEPT ![n] = Max(minPx, next[n] + diff)]
           ELSE next
  ELSE edgeWidths(startPx, targetTotal, minPx)

(***************************************************************************)
(* Table identity.  A fingerprint is a string, kept as its sequence of     *)
(* tokens ("3", ":", "A", "|", ... and "#" before a surface index).  A key  *)
(* string of the store is kept as the object it parses to: form "pf" is     *)
(* {"path","fingerprint"}, form "full" is the older                        *)
(* {"path","lineStart","lineEnd","fingerprint"}, form "bad" does not parse. *)
(***************************************************************************)
Absent == -1
NoLine == -1

normalizeFingerprint(fp) ==
  IF \E i \in DOMAIN fp : fp[i] = "#"
  THEN LET hash == CHOOSE i \in DOMAIN fp :
                     fp[i] = "#" /\ \A j \in 1 .. (i - 1) : fp[j] # "#"
       IN  SubSeq(fp, 1, hash - 1)
  ELSE fp

TableKey(path, lineStart, lineEnd, fingerprint) ==
  [path |-> path, lineStart |-> lineStart, lineEnd |-> lineEnd, fingerprint |-> fingerprint]

KeyString(form, path, lineStart, lineEnd, fingerprint) ==
  [form |-> form, path |-> path, lineStart |-> lineStart, lineEnd |-> lineEnd,
   fingerprint |-> fingerprint]

\* JSON.stringify(key) of a whole TableKey: the key format of earlier versions.
keyToString(key) == KeyString("full", key.path, key.lineStart, key.lineEnd, key.fingerprint)

\* Mutant: the raw fingerprint is serialized.
canonicalKeyString_RawFingerprint(key) ==
  KeyString("pf", key.path, NoLine, NoLine, key.fingerprint)

canonicalKeyString(key) ==
  KeyString("pf", key.path, NoLine, NoLine, normalizeFingerprint(key.fingerprint))

BadKeyString == KeyString("bad", "", NoLine, NoLine, <<>>)

\* JSON.parse(k) throws.
ParseThrows(k) == k.form = "bad"

(***************************************************************************)
(* The store: dataStore.tables is an insertion-ordered map from key string *)
(* to object reference; heap holds the objects (TableSizes).               *)
(***************************************************************************)
NoRowHeights == [i \in {} |-> 0]
NoSettingsProp == [none |-> TRUE]
\* The "settings" property of a payload or of the dataStore object.
SettingsProp(s) == [none |-> FALSE, settings |-> s]

TableSizes(ratios, lastPxWidth, tablePxWidth, rowHeights, updatedAt) ==
  [ratios |-> ratios, lastPxWidth |-> lastPxWidth, tablePxWidth |-> tablePxWidth,
   rowHeights |-> rowHeights, updatedAt |-> updatedAt]

EmptyDataStore == [tables |-> <<>>, settingsProp |-> NoSettingsProp]

HasKey(tables, k) == \E i \in DOMAIN tables : tables[i].k = k
IndexOf(tables, k) == CHOOSE i \in DOMAIN tables : tables[i].k = k
RefOf(tables, k) == tables[IndexOf(tables, k)].ref

\* tables[k] = ref
SetKey(tables, k, ref) ==
  IF HasKey(tables, k) THEN [tables EXCEPT ![IndexOf(tables, k)].ref = ref]
  ELSE Append(tables, [k |-> k, ref |-> ref])

NewRef(h) == CHOOSE r \in 1 .. (Cardinality(DOMAIN h) + 1) : r \notin DOMAIN h

\* Objects no entry and no closure refers to any more are dropped.
Collect(tables, h) ==
  [r \in { tables[i].ref : i \in DOMAIN tables } |-> h[r]]

\* tables[k] = a new object v
PutNew(ds, h, k, v) ==
  LET r == NewRef(h)
      t2 == SetKey(ds.tables, k, r)
      h2 == [x \in DOMAIN h \cup {r} |-> IF x = r THEN v ELSE h[x]]
  IN  [ds |-> [ds EXCEPT !.tables = t2], heap |-> Collect(t2, h2)]

\* JSON.stringify(dataStore): every entry's object is written out by value.
Serialize(ds, h) ==
  [tables |-> [i \in DOMAIN ds.tables |-> [k |-> ds.tables[i].k, v |-> h[ds.tables[i].ref]]],
   settingsProp |-> ds.settingsProp]

NoData == [present |-> FALSE, tables |-> <<>>, settingsProp |-> NoSettingsProp]
Payload(ser) == [present |-> TRUE, tables |-> ser.tables, settingsProp |-> ser.settingsProp]

\* Mutant: the loaded payload is ignored.
loadDataStore_KeepDefault(raw) == [ds |-> EmptyDataStore, heap |-> <<>>]

\* loadDataStore: if (raw) this.dataStore = raw; every entry is an object of its own.
loadDataStore(raw) ==
  IF raw.present
  THEN [ds |-> [tables |-> [i \in DOMAIN raw.tables |-> [k |-> raw.tables[i].k, ref |-> i]],
                settingsProp |-> raw.settingsProp],
        heap |-> [i \in DOMAIN raw.tables |-> raw.tables[i].v]]
  ELSE [ds |-> EmptyDataStore, heap |-> <<>>]

\* Mutant: the scan stops at the first key that does not parse.
RECURSIVE ScanLegacy_AbortOnBad(_, _, _, _, _)
ScanLegacy_AbortOnBad(tables, h, key, i, best) ==
  IF i > Len(tables) THEN best
  ELSE LET k == tables[i].k
           v == h[tables[i].ref]
           norm == normalizeFingerprint(key.fingerprint)
       IN  IF ParseThrows(k) THEN best
           ELSE IF k.path # key.path THEN ScanLegacy_AbortOnBad(tables, h, key, i + 1, best)
           ELSE IF normalizeFingerprint(k.fingerprint) # norm
                THEN ScanLegacy_AbortOnBad(tables, h, key, i + 1, best)
           ELSE IF v.updatedAt > best.ts
                THEN ScanLegacy_AbortOnBad(tables, h, key, i + 1, [idx |-> i, ts |-> v.updatedAt])
           ELSE ScanLegacy_AbortOnBad(tables, h, key, i + 1, best)

\* The legacy scan of findOrMigrateToCanonicalKey: entries i..Len in order,
\* best = [idx, ts] so far.
RECURSIVE ScanLegacy(_, _, _, _, _)
ScanLegacy(tables, h, key, i, best) ==
  IF i > Len(tables) THEN best
  ELSE LET k == tables[i].k
           v == h[tables[i].ref]
           norm == normalizeFingerprint(key.fingerprint)
       IN  IF ParseThrows(k) THEN ScanLegacy(tables, h, key, i + 1, best)
           ELSE IF k.path # key.path THEN ScanLegacy(tables, h, key, i + 1, best)
           ELSE IF normalizeFingerprint(k.fingerprint) # norm
                THEN ScanLegacy(tables, h, key, i + 1, best)
           ELSE IF v.updatedAt > best.ts
                THEN ScanLegacy(tables, h, key, i + 1, [idx |-> i, ts |-> v.updatedAt])
           ELSE ScanLegacy(tables, h, key, i + 1, best)

NoBest == [idx |-> 0, ts |-> -1]

\* Mutant: no direct lookup, every resolution scans and copies.
findOrMigrateToCanonicalKey_AlwaysScan(ds, h, key) ==
  LET canonical == canonicalKeyString(key)
      best == ScanLegacy(ds.tables, h, key, 1, NoBest)
  IN  IF best.idx # 0
      THEN [key |-> canonical, how |-> "migrated", scanned |-> TRUE,
            ds |-> [ds EXCEPT !.tables = SetKey(ds.tables, canonical, ds.tables[best.idx].ref)],
            heap |-> h, save |-> TRUE]
      ELSE [key |-> canonical, how |-> "miss", scanned |-> TRUE, ds |-> ds, heap |-> h,
            save |-> FALSE]

\* findOrMigrateToCanonicalKey(key): the returned key string, the store afterwards
\* and whether saveDataStore was called.
findOrMigrateToCanonicalKey(ds, h, key) ==
  LET canonical == canonicalKeyString(key)
  IN  IF HasKey(ds.tables, canonical)
      THEN [key |-> canonical, how |-> "hit", scanned |-> FALSE, ds |-> ds, heap |-> h,
            save |-> FALSE]
      ELSE LET best == ScanLegacy(ds.tables, h, key, 1, NoBest)
           IN  IF best.idx # 0
               THEN [key |-> canonical, how |-> "migrated", scanned |-> TRUE,
                     ds |-> [ds EXCEPT !.tables =
                                SetKey(ds.tables, canonical, ds.tables[best.idx].ref)],
                     heap |-> h, save |-> TRUE]
               ELSE [key |-> canonical, how |-> "miss", scanned |-> TRUE, ds |-> ds,
                     heap |-> h, save |-> FALSE]

\* JSON.parse(k) with path oldPath replaced by newPath, stringified again.
RekeyedString(k, oldPath, newPath) ==
  IF k.path = oldPath THEN [k EXCEPT !.path = newPath] ELSE k

\* The loop of onFileRename over entries i..Len, updates built so far.
RECURSIVE RenameUpdates(_, _, _, _, _)
RenameUpdates(tables, oldPath, newPath, i, updates) ==
  IF i > Len(tables) THEN updates
  ELSE RenameUpdates(tables, oldPath, newPath, i + 1,
                     SetKey(updates, RekeyedString(tables[i].k, oldPath, newPath),
                            tables[i].ref))

\* onFileRename: an entry whose key does not parse makes JSON.parse throw before
\* the new map is assigned.
onFileRename(ds, h, newPath, oldPath) ==
  IF \E i \in DOMAIN ds.tables : ParseThrows(ds.tables[i].k)
  THEN [threw |-> TRUE, ds |-> ds, heap |-> h]
  ELSE LET t2 == RenameUpdates(ds.tables, oldPath, newPath, 1, <<>>)
       IN  [threw |-> FALSE, ds |-> [ds EXCEPT !.tables = t2], heap |-> Collect(t2, h)]

(***************************************************************************)
(* Calls of the pure geometry functions: the inputs are drawn at Init.     *)
(***************************************************************************)
NoPx == <<>>
NoRatios == [nums |-> <<>>, den |-> 1]
NoKey == TableKey("", NoLine, NoLine, <<>>)
NoRet == [fn |-> "none", newLeft |-> 0, newRight |-> 0, ratios |-> NoRatios, next |-> NoPx,
          k1 |-> BadKeyString, k2 |-> BadKeyString]
NoCall == [fn |-> "none", left |-> 0, right |-> 0, total |-> 0, dx |-> 0, minPx |-> 0,
           step |-> 0, disableSnap |-> FALSE, px |-> NoPx, mode |-> "edge", targetTotal |-> 0,
           key1 |-> NoKey, key2 |-> NoKey]

WidthInputs == {0, 60, 139, 200}
DeltaInputs == {-500, -37, -4, 0, 3, 4, 37, 500}
MinInputs == {1, 60, 200}
StepInputs == {-1, 0, 1, 7, 8}

ApplyDeltaCalls ==
  { [NoCall EXCEPT !.fn = "applyDeltaWithSnap", !.left = l, !.right = r, !.total = t,
                   !.dx = d, !.minPx = m, !.step = s, !.disableSnap = b] :
      l \in WidthInputs, r \in {60, 200}, t \in {100, 399, 400}, d \in DeltaInputs,
      m \in MinInputs, s \in StepInputs, b \in BOOLEAN }
  \cup
  { [NoCall EXCEPT !.fn = "applyDeltaWithSnap", !.left = l, !.right = r, !.total = l + r,
                   !.dx = d, !.minPx = m, !.step = s, !.disableSnap = b] :
      l \in WidthInputs, r \in {60, 200}, d \in DeltaInputs,
      m \in MinInputs, s \in StepInputs, b \in BOOLEAN }

PxEntryInputs == {-5, 0, 1, 2, 60, 100, 150, 250}
MaxPxLen == 3
PxArrays == UNION { [1..n -> PxEntryInputs] : n \in 0..MaxPxLen }

NormalizeCalls == { [NoCall EXCEPT !.fn = "normalizeRatios", !.px = p] : p \in PxArrays }

StartPxInputs == {<<100, 100, 100>>, <<240, 60>>, <<60, 240>>, <<60, 200, 60>>,
                  <<100, 150, 250>>, <<61, 67, 73>>, <<0, 0>>}
TargetInputs == {0, 120, 150, 180, 200, 299, 300, 301, 450, 500, 1000}

ComputeNextCalls ==
  { [NoCall EXCEPT !.fn = "computeNext", !.px = p, !.targetTotal = t, !.mode = md, !.minPx = m] :
      p \in StartPxInputs, t \in TargetInputs, md \in {"scale", "edge"}, m \in {1, 60} }

CallApplyDelta ==
  /\ call.fn = "applyDeltaWithSnap" /\ ret.fn = "none"
  /\ LET r == applyDeltaWithSnap(call.left, call.right, call.total, call.dx, call.minPx,
                                 call.step, call.disableSnap)
     IN  ret' = [NoRet EXCEPT !.fn = call.fn, !.newLeft = r.newLeft, !.newRight = r.newRight]
  /\ UNCHANGED <<uiVars, call, storeVars, histVars, domVars>>

CallNormalize ==
  /\ call.fn = "normalizeRatios" /\ ret.fn = "none"
  /\ ret' = [NoRet EXCEPT !.fn = call.fn, !.ratios = normalizeRatios(call.px)]
  /\ UNCHANGED <<uiVars, call, storeVars, histVars, domVars>>

CallComputeNext ==
  /\ call.fn = "computeNext" /\ ret.fn = "none"
  /\ ret' = [NoRet EXCEPT !.fn = call.fn,
                          !.next = computeNext(call.px, call.targetTotal, call.mode, call.minPx)]
  /\ UNCHANGED <<uiVars, call, storeVars, histVars, domVars>>

(***************************************************************************)
(* The table element.  Layout is kept to what the code measures: the       *)
(* element's rect width is 0 while it is not laid out, its style width     *)
(* when one is set, and its natural width otherwise.  Column widths are    *)
(* the style widths of the <col> elements: unit "px" in pixels, unit "pct" *)
(* in hundredths of a percent, unit "none" when no width is set.           *)
(***************************************************************************)
minColumnWidthPx == 60
rowMinHeightPx == 24
showOuterWidthHandle == TRUE
enableRowResize == TRUE
NumRows == 2

NoCols == [unit |-> "none", w |-> <<>>]

NoTable == [headers |-> <<>>, thead |-> FALSE, host |-> "none", path |-> "", bound |-> FALSE,
            cols |-> NoCols, styleW |-> 0, managed |-> FALSE, inactive |-> FALSE,
            rowHeights |-> NoRowHeights, handles |-> 0, listeners |-> 0, observers |-> 0,
            percentRO |-> NoRatios, breakout |-> {}, resolvedKeyStr |-> BadKeyString,
            containerWidth |-> 0, storedRatios |-> NoRatios]
NoEnv == [natW |-> 0, lineW |-> 0]
NoSched == [rafSet |-> FALSE, rafs |-> 0, timers |-> 0, delay |-> 0, retries |-> 0,
            outerDragActive |-> FALSE, layoutPending |-> FALSE]

\* The settings the handlers read when an event arrives.
snapStepPx == 8
keyboardStepPx == 8
rowKeyboardStepPx == 4
DEFAULT_SETTINGS ==
  [requireAltToDrag |-> FALSE, doubleClickAction |-> "autofit", outerHandleMode |-> "edge",
   outerMaxWidthPx |-> 0]

\* No drag is active: no handle's closure has active (activeR) set.
NoDrag == [kind |-> "none", index |-> 0, leftWidth |-> 0, rightWidth |-> 0, startPx |-> <<>>,
           startHeight |-> 0, rafId |-> FALSE, rafs |-> 0, pendingTargetTotal |-> -1]
NoEvent == [kind |-> "none", type |-> "none", index |-> 0, alt |-> FALSE, key |-> "none",
            target |-> 0]

\* The inline styles and classes a breakout sets: on the .cm-table-widget container
\* in Live Preview, on the table itself in Reading view; and those the other branch
\* resets.
CmBreakoutStyles ==
  { "container.width", "container.transform", "container.overflowX", "container.position",
    "container.zIndex", "container.paddingLeft", "container.paddingRight",
    "container.otd-breakout-cm" }
ReadingBreakoutStyles ==
  { "table.marginLeft", "table.marginRight", "table.overflowX", "table.position",
    "table.zIndex", "table.background", "table.paddingLeft", "table.paddingRight",
    "table.otd-breakout" }
\* dataset.otdCentered of the container: its scroll position was centered once.
CenteredMark == "container.dataset.otdCentered"
ClearedStyles ==
  { "container.width", "container.marginLeft", "container.marginRight", "container.transform",
    "container.overflowX", "container.position", "container.zIndex", "container.paddingLeft",
    "container.paddingRight", "container.background", "container.otd-breakout-cm",
    "table.otd-breakout", "table.marginLeft", "table.marginRight", "table.overflowX",
    "table.position", "table.zIndex", "table.paddingLeft", "table.paddingRight",
    "table.background" }

\* Math.max(0, ...rows.map(r => r.cells.length)): every row has one cell per header.
ColCount(t) == Len(t.headers)

CountToken(n) == CASE n = 0 -> "0" [] n = 1 -> "1" [] n = 2 -> "2" [] n = 3 -> "3"
                   [] OTHER -> "4"

RECURSIVE JoinHeaders(_)
JoinHeaders(hs) ==
  IF Len(hs) = 0 THEN <<>>
  ELSE IF Len(hs) = 1 THEN <<hs[1]>>
  ELSE <<hs[1], "|">> \o JoinHeaders(Tail(hs))

\* computeFingerprint: `${cols}:${header}`, header texts joined by '|'.
computeFingerprint(t) == <<CountToken(ColCount(t)), ":">> \o JoinHeaders(t.headers)

\* table.getBoundingClientRect().width
RectWidth(t, e) == IF e.natW = 0 THEN 0 ELSE IF t.styleW > 0 THEN t.styleW ELSE e.natW

\* applyColWidths: every <col> gets max(min, floor(px)) px.
applyColWidths(px) ==
  [unit |-> "px", w |-> [i \in DOMAIN px |-> Max(minColumnWidthPx, px[i])]]

\* applyRatiosAsPercent: max(1, round(ratio * 10000) / 100) percent.
applyRatiosAsPercent(ratios) ==
  [unit |-> "pct",
   w |-> [i \in DOMAIN ratios.nums |-> Max(100, MathRound(ratios.nums[i] * 10000, ratios.den))]]

\* ratios.map(r => Math.max(min, Math.round(r * w)))
RatiosToPx(ratios, w) ==
  [i \in DOMAIN ratios.nums |-> Max(minColumnWidthPx, RatioTimesRound(ratios, i, w))]

\* dataStore.tables[k], or NoStored when the key is absent.
NoStored == [ratios |-> NoRatios, lastPxWidth |-> Absent, tablePxWidth |-> Absent,
             rowHeights |-> NoRowHeights, updatedAt |-> Absent]
Lookup(ds, h, k) == IF HasKey(ds.tables, k) THEN h[RefOf(ds.tables, k)] ELSE NoStored

\* The scan of getLatestForPath: entries i..Len in order, best = [idx, ts] so far;
\* an updatedAt that is not a number counts as 0.
RECURSIVE ScanLatest(_, _, _, _, _)
ScanLatest(tables, h, path, i, best) ==
  IF i > Len(tables) THEN best
  ELSE LET k == tables[i].k
           v == h[tables[i].ref]
           ts == IF v.updatedAt = Absent THEN 0 ELSE v.updatedAt
       IN  IF ParseThrows(k) THEN ScanLatest(tables, h, path, i + 1, best)
           ELSE IF k.path # path THEN ScanLatest(tables, h, path, i + 1, best)
           ELSE IF ts > best.ts THEN ScanLatest(tables, h, path, i + 1, [idx |-> i, ts |-> ts])
           ELSE ScanLatest(tables, h, path, i + 1, best)

\* Mutant: the scan starts from a best timestamp of 0.
getLatestForPath_FromZero(ds, h, path) ==
  LET best == ScanLatest(ds.tables, h, path, 1, [idx |-> 0, ts |-> 0])
  IN  IF best.idx = 0 THEN [found |-> FALSE, keyStr |-> BadKeyString, sizes |-> NoStored]
      ELSE [found |-> TRUE, keyStr |-> ds.tables[best.idx].k,
            sizes |-> h[ds.tables[best.idx].ref]]

\* getLatestForPath(path): null, or the key string and the record of the entry kept.
getLatestForPath(ds, h, path) ==
  LET best == ScanLatest(ds.tables, h, path, 1, NoBest)
  IN  IF best.idx = 0 THEN [found |-> FALSE, keyStr |-> BadKeyString, sizes |-> NoStored]
      ELSE [found |-> TRUE, keyStr |-> ds.tables[best.idx].k,
            sizes |-> h[ds.tables[best.idx].ref]]

\* scheduleBreakoutForTable(table, delayMs)
\* rafSet is breakoutRAF.has(table), rafs the frames requested and not yet run,
\* timers the setTimeout calls not yet expired, delay the delayMs of the last of them.
scheduleBreakoutForTable(sc, delayMs) ==
  IF sc.rafSet THEN sc
  ELSE IF delayMs > 0 THEN [sc EXCEPT !.timers = @ + 1, !.delay = delayMs]
  ELSE [sc EXCEPT !.rafs = @ + 1, !.rafSet = TRUE]

\* Math.min(100, 10 * Math.pow(2, retries))
RetryDelay(retries) == Min(100, 10 * 2 ^ retries)

\* Mutant: no tolerance, a table exactly one pixel wider than the line breaks out.
IsOverflowing_NoTolerance(desired, lineWidth) == desired > lineWidth

\* desired > ctx.lineWidth + 1
IsOverflowing(desired, lineWidth) == desired > lineWidth + 1

\* measureContextForEl: the pane is the readable line and a margin on either side.
SideMarginPx == 100
PaneWidth(e) == IF e.lineW > 0 THEN e.lineW + 2 * SideMarginPx ELSE 0

\* bleedWideTables, bleedGutterPx
bleedGutterPx == 16

\* Mutant: after five attempts the counter is reset and one more retry is scheduled.
updateBreakoutForTable_NeverGiveUp(t, e, sc) ==
  IF e.natW = 0 \/ t.inactive THEN [table |-> t, sched |-> sc]
  ELSE IF PaneWidth(e) <= 0 \/ e.lineW <= 0
  THEN IF sc.retries < 5
       THEN [table |-> t,
             sched |-> scheduleBreakoutForTable([sc EXCEPT !.retries = @ + 1],
                                                RetryDelay(sc.retries))]
       ELSE [table |-> t,
             sched |-> scheduleBreakoutForTable([sc EXCEPT !.retries = 0], 100)]
  ELSE [table |-> t, sched |-> [sc EXCEPT !.retries = 0]]

\* updateBreakoutForTable: skip when hidden or parked; retry with backoff while the
\* host has no width; break out when the table is wider than the readable line
\* (the widget is widened in Live Preview and its scroll centered once, the
\* table's margins are set in Reading view), otherwise clear every breakout style,
\* the table's style width included.
updateBreakoutForTable(t, e, sc) ==
  IF e.natW = 0 \/ t.inactive THEN [table |-> t, sched |-> sc]
  ELSE IF PaneWidth(e) <= 0 \/ e.lineW <= 0
  THEN IF sc.retries < 5
       THEN [table |-> t,
             sched |-> scheduleBreakoutForTable([sc EXCEPT !.retries = @ + 1],
                                                RetryDelay(sc.retries))]
       ELSE [table |-> t, sched |-> [sc EXCEPT !.retries = 0]]
  ELSE LET intrinsic == RectWidth(t, e)
           desired == Max(intrinsic, t.styleW)
           paneAvail == Max(0, PaneWidth(e) - 2 * bleedGutterPx)
           sc2 == [sc EXCEPT !.retries = 0]
       IN  IF IsOverflowing(desired, e.lineW)
           THEN IF t.host = "cm6"
                THEN [table |-> [t EXCEPT !.breakout =
                                   @ \cup CmBreakoutStyles
                                     \cup (IF desired > paneAvail + 1 /\ ~sc.outerDragActive
                                           THEN {CenteredMark} ELSE {})],
                      sched |-> sc2]
                ELSE [table |-> [t EXCEPT !.breakout = @ \cup ReadingBreakoutStyles],
                      sched |-> sc2]
           ELSE [table |-> [t EXCEPT !.breakout = @ \ ClearedStyles, !.styleW = 0],
                 sched |-> sc2]

\* The key a notification builds for the element: { path, lineStart, lineEnd,
\* fingerprint: computeFingerprint(table) }.
KeyOf(t, lineStart, lineEnd) == TableKey(t.path, lineStart, lineEnd, computeFingerprint(t))

\* A findOrMigrateToCanonicalKey call that was not made.
NotResolved(ds, h) ==
  [key |-> BadKeyString, how |-> "none", scanned |-> FALSE, ds |-> ds, heap |-> h,
   save |-> FALSE]

\* applyStoredRatiosPx from the lookup of the record on: the table's style width
\* is set from tablePxWidth first, the rect is measured after that.
ApplyStoredPx(stored, t, e) ==
  IF stored = NoStored \/ Len(stored.ratios.nums) # ColCount(t) THEN t
  ELSE LET t1 == IF stored.tablePxWidth > 0
                 THEN [t EXCEPT !.styleW = stored.tablePxWidth] ELSE t
           rect == RectWidth(t1, e)
           w == IF rect > 0 THEN rect
                ELSE IF stored.lastPxWidth > 0 THEN stored.lastPxWidth
                ELSE IF stored.tablePxWidth > 0 THEN stored.tablePxWidth
                ELSE 0
       IN  IF w <= 0 THEN t1
           ELSE [t1 EXCEPT !.cols = applyColWidths(RatiosToPx(stored.ratios, w)),
                           !.managed = TRUE]

\* applyStoredRatiosPx(table, key): the element afterwards and the resolution made.
applyStoredRatiosPx(ds, h, t, e, key) ==
  IF ColCount(t) < 2 THEN [table |-> t, res |-> NotResolved(ds, h)]
  ELSE LET r == findOrMigrateToCanonicalKey(ds, h, key)
       IN  [table |-> ApplyStoredPx(Lookup(r.ds, r.heap, r.key), t, e), res |-> r]

\* The handles, listeners and observers the first bind adds: colCount - 1 column
\* handles with pointerdown, dblclick and keydown; the outer handle with pointerdown
\* and keydown; one handle per row with pointerdown and keydown; the table's
\* ResizeObserver and the host pane's.
HandlesOf(t) ==
  (ColCount(t) - 1) + (IF showOuterWidthHandle THEN 1 ELSE 0)
    + (IF enableRowResize THEN NumRows ELSE 0)
ListenersOf(t) ==
  3 * (ColCount(t) - 1) + (IF showOuterWidthHandle THEN 2 ELSE 0)
    + (IF enableRowResize THEN 2 * NumRows ELSE 0)

\* Row heights of the stored record as the bind applies them.
AppliedRowHeights(stored) ==
  [i \in { j \in DOMAIN stored.rowHeights : j < NumRows /\ stored.rowHeights[j] > 0 } |->
     Max(rowMinHeightPx, stored.rowHeights[i])]

\* Mutant: no alreadyBound check, every notification binds from scratch.
IsAlreadyBound_Never(t) == FALSE

\* table.getAttribute('data-otd-bound') === '1'
IsAlreadyBound(t) == t.bound

\* The widths the derive branch computes: the header cells' widths when the table
\* has a thead with colCount cells (hw), else an equal split of the container.
DerivedPx(t, containerWidth, hw) ==
  [i \in 1 .. ColCount(t) |->
     IF t.thead THEN Max(minColumnWidthPx, hw[i])
     ELSE Max(minColumnWidthPx, Max(1, containerWidth) \div ColCount(t))]

\* The widths part of a first bind: stored ratios as pixels of the container width
\* measured before the style width is set, or as percentages with a one-shot
\* observer when that width is 0; derived widths when no usable record exists.
InitialWidths(stored, t, e, hw) ==
  LET containerWidth == RectWidth(t, e)
  IN  IF stored # NoStored /\ Len(stored.ratios.nums) = ColCount(t)
      THEN IF containerWidth > 0
           THEN [t EXCEPT !.styleW = IF stored.tablePxWidth > 0 THEN stored.tablePxWidth ELSE @,
                          !.cols = applyColWidths(RatiosToPx(stored.ratios, containerWidth))]
           ELSE [t EXCEPT !.styleW = IF stored.tablePxWidth > 0 THEN stored.tablePxWidth ELSE @,
                          !.cols = applyRatiosAsPercent(stored.ratios),
                          !.percentRO = stored.ratios,
                          !.observers = @ + 1]
      ELSE [t EXCEPT !.cols = applyColWidths(DerivedPx(t, containerWidth, hw))]

\* The record the derive branch stores.
DerivedRecord(t, e, hw, clock) ==
  TableSizes(normalizeRatios(DerivedPx(t, RectWidth(t, e), hw)), Max(1, RectWidth(t, e)),
             Absent, NoRowHeights, clock)

\* attachResizersWithKey(table, key) from the resolution r of the key on, with th
\* widths hw measured for the header cells: the element, the scheduler and the
\* store afterwards, and whether the derive branch stored and saved a record.
attachResizersWithKey(r, t, e, sc, key, hw, clock) ==
  IF IsAlreadyBound(t)
  THEN [table |-> updateBreakoutForTable(applyStoredRatiosPx(r.ds, r.heap, t, e, key).table,
                                         e, sc).table,
        sched |-> updateBreakoutForTable(applyStoredRatiosPx(r.ds, r.heap, t, e, key).table,
                                         e, sc).sched,
        ds |-> r.ds, heap |-> r.heap, derived |-> FALSE]
  ELSE IF ColCount(t) < 2
  THEN [table |-> t, sched |-> sc, ds |-> r.ds, heap |-> r.heap, derived |-> FALSE]
  ELSE
    LET stored == Lookup(r.ds, r.heap, r.key)
        useStored == stored # NoStored /\ Len(stored.ratios.nums) = ColCount(t)
    IN  [table |-> [InitialWidths(stored, t, e, hw) EXCEPT
                      !.managed = TRUE,
                      !.rowHeights = AppliedRowHeights(stored),
                      !.handles = HandlesOf(t),
                      !.listeners = @ + ListenersOf(t),
                      !.observers = @ + 2,
                      !.resolvedKeyStr = r.key,
                      !.containerWidth = RectWidth(t, e),
                      !.storedRatios = stored.ratios,
                      !.bound = TRUE],
         sched |-> scheduleBreakoutForTable(scheduleBreakoutForTable(sc, 0), 50),
         ds |-> IF useStored THEN r.ds
                ELSE PutNew(r.ds, r.heap, r.key, DerivedRecord(t, e, hw, clock)).ds,
         heap |-> IF useStored THEN r.heap
                  ELSE PutNew(r.ds, r.heap, r.key, DerivedRecord(t, e, hw, clock)).heap,
         derived |-> ~useStored]

(***************************************************************************)
(* Store operations                                                        *)
(***************************************************************************)
MaxInflight == 1
MaxOps == 2

NoneUsed == [commits |-> 0, renames |-> 0, reloads |-> 0]

NoCommit == [k |-> BadKeyString, v |-> TableSizes(NoRatios, Absent, Absent, NoRowHeights, 0),
             some |-> FALSE]
NoResolve == [input |-> NoKey, key |-> BadKeyString,
              how |-> "none", scanned |-> FALSE]

\* void this.saveDataStore(): the payload is serialized when saveData is called.
SaveDataStore(q, ds, h, commit) ==
  Append(q, [payload |-> Payload(Serialize(ds, h)), commit |-> commit])

\* findOrMigrateToCanonicalKey(key); call holds the key passed.
Resolve(key) ==
  /\ Len(inflight) < MaxInflight
  /\ LET r == findOrMigrateToCanonicalKey(dataStore, heap, key)
     IN  /\ dataStore' = r.ds
         /\ heap' = r.heap
         /\ inflight' = IF r.save THEN SaveDataStore(inflight, r.ds, r.heap, lastCommit)
                        ELSE inflight
         /\ lastResolve' = [input |-> key, key |-> r.key, how |-> r.how,
                            scanned |-> r.scanned]
         /\ migrated' = IF r.how = "migrated" THEN migrated \cup {r.key} ELSE migrated
  /\ call' = [NoCall EXCEPT !.fn = "findOrMigrateToCanonicalKey", !.key1 = key]
  /\ lastOp' = "resolve"
  /\ UNCHANGED <<uiVars, disk, now, lastCommit, durable, used, ret, domVars>>

\* A resize commit of a handler bound with the key resolved last:
\* tables[resolvedKeyStr] = { ratios, lastPxWidth, (tablePxWidth,) updatedAt: Date.now() }
CommitSizes(ratios, lastPxWidth, tablePxWidth) ==
  /\ lastResolve.how # "none"
  /\ Len(inflight) < MaxInflight
  /\ used.commits + used.renames + used.reloads < MaxOps
  /\ used' = [used EXCEPT !.commits = @ + 1]
  /\ LET v == TableSizes(ratios, lastPxWidth, tablePxWidth, NoRowHeights, now)
         r == PutNew(dataStore, heap, lastResolve.key, v)
         c == [k |-> lastResolve.key, v |-> v, some |-> TRUE]
     IN  /\ dataStore' = r.ds
         /\ heap' = r.heap
         /\ lastCommit' = c
         /\ inflight' = SaveDataStore(inflight, r.ds, r.heap, c)
  /\ now' = now + 1
  /\ lastOp' = "commit"
  /\ UNCHANGED <<uiVars, disk, lastResolve, migrated, durable, geomVars, domVars>>

\* The vault's rename event: onFileRename(file, oldPath); call holds file.path in
\* key1 and oldPath in key2.
FileRename(newPath, oldPath) ==
  /\ Len(inflight) < MaxInflight
  /\ used.commits + used.renames + used.reloads < MaxOps
  /\ used' = [used EXCEPT !.renames = @ + 1]
  /\ LET r == onFileRename(dataStore, heap, newPath, oldPath)
     IN  /\ dataStore' = r.ds
         /\ heap' = r.heap
         /\ inflight' = IF r.threw THEN inflight
                        ELSE SaveDataStore(inflight, r.ds, r.heap, NoCommit)
         /\ migrated' = IF r.threw THEN migrated
                        ELSE { RekeyedString(c, oldPath, newPath) : c \in migrated }
         /\ lastCommit' = IF r.threw THEN lastCommit ELSE NoCommit
  /\ call' = [NoCall EXCEPT !.fn = "onFileRename",
                            !.key1 = TableKey(newPath, NoLine, NoLine, <<>>),
                            !.key2 = TableKey(oldPath, NoLine, NoLine, <<>>)]
  /\ lastOp' = "rename"
  /\ UNCHANGED <<uiVars, disk, now, lastResolve, durable, ret, domVars>>

\* getLatestForPath(path) is called: call holds the path, ret the key string of the
\* entry returned (BadKeyString for null) and its ratios.
LatestForPath(path) ==
  /\ \E r \in {getLatestForPath(dataStore, heap, path)} :
       /\ call' = [NoCall EXCEPT !.fn = "getLatestForPath",
                                 !.key1 = TableKey(path, NoLine, NoLine, <<>>)]
       /\ ret' = [NoRet EXCEPT !.fn = "getLatestForPath", !.k1 = r.keyStr,
                               !.ratios = r.sizes.ratios, !.newLeft = r.sizes.updatedAt]
  /\ lastOp' = "latest"
  /\ UNCHANGED <<uiVars, storeVars, lastResolve, migrated, lastCommit, durable, used, domVars>>

\* plugin.saveData completes: the oldest outstanding payload reaches the disk.
FlushOk ==
  /\ inflight # <<>>
  /\ disk' = Head(inflight).payload
  /\ durable' = Head(inflight).commit
  /\ inflight' = Tail(inflight)
  /\ lastOp' = "flush"
  /\ UNCHANGED <<uiVars, dataStore, heap, now, lastResolve, migrated, lastCommit, used, geomVars, domVars>>

\* Mutant: a failed save puts the store back to what the disk holds.
FlushFail_Revert ==
  /\ inflight # <<>>
  /\ inflight' = Tail(inflight)
  /\ dataStore' = loadDataStore(disk).ds
  /\ heap' = loadDataStore(disk).heap
  /\ lastOp' = "flushfail"
  /\ UNCHANGED <<uiVars, disk, now, lastResolve, migrated, lastCommit, durable, used, geomVars,
                 domVars>>

\* plugin.saveData rejects: nothing is written and nothing retries.
FlushFail ==
  /\ inflight # <<>>
  /\ inflight' = Tail(inflight)
  /\ lastOp' = "flushfail"
  /\ UNCHANGED <<uiVars, dataStore, heap, disk, now, lastResolve, migrated, lastCommit,
                 durable, used, geomVars, domVars>>

\* loadSettings: { ...DEFAULT_SETTINGS, ...raw.settings }, the defaults when the
\* payload has no settings.
loadSettings(raw) ==
  IF ~raw.present \/ raw.settingsProp = NoSettingsProp THEN DEFAULT_SETTINGS
  ELSE raw.settingsProp.settings

\* saveSettings: plugin.saveData({ ...this.dataStore, settings: this.settings }).
saveSettings(q, ds, h, s, commit) ==
  Append(q, [payload |-> Payload([Serialize(ds, h) EXCEPT !.settingsProp = SettingsProp(s)]),
             commit |-> commit])

\* The settings tab changes a setting: the settings object is updated in place and
\* saveSettings is called.
ChangeSetting(s) ==
  /\ s # settings
  /\ Len(inflight) < MaxInflight
  /\ settings' = s
  /\ inflight' = saveSettings(inflight, dataStore, heap, s, lastCommit)
  /\ lastOp' = "settings"
  /\ UNCHANGED <<drag, event, dataStore, heap, disk, now, lastResolve, migrated, lastCommit,
                 durable, used, geomVars, domVars>>

\* The plugin is loaded again (onload): the store and the settings are read from the
\* disk; writes still outstanding are lost.
Reload ==
  /\ used.commits + used.renames + used.reloads < MaxOps
  /\ used' = [used EXCEPT !.reloads = @ + 1]
  /\ LET r == loadDataStore(disk)
     IN  /\ dataStore' = r.ds
         /\ heap' = r.heap
         /\ migrated' = { c \in migrated : HasKey(r.ds.tables, c) }
  /\ settings' = loadSettings(disk)
  /\ inflight' = <<>>
  /\ lastResolve' = NoResolve
  /\ lastCommit' = NoCommit
  /\ lastOp' = "reload"
  /\ UNCHANGED <<drag, event, disk, now, durable, geomVars, domVars>>

(***************************************************************************)
(* Inputs of the store specification                                       *)
(***************************************************************************)
FpABC == <<"3", ":", "A", "|", "B", "|", "C">>
FpABCidx == FpABC \o <<"#", "0">>
FpAXBC == <<"4", ":", "A", "|", "X", "|", "B", "|", "C">>

RatiosEven3 == [nums |-> <<1, 1, 1>>, den |-> 3]
Ratios235 == [nums |-> <<2, 3, 5>>, den |-> 10]
Ratios145 == [nums |-> <<1, 4, 5>>, den |-> 10]

StoredOld == TableSizes(RatiosEven3, 300, Absent, NoRowHeights, 0)
StoredNew == TableSizes(Ratios235, 500, Absent, NoRowHeights, 1)
StoredWide == TableSizes(Ratios145, 600, 600, (0 :> 40), 1)

KeyPfA == KeyString("pf", "a.md", NoLine, NoLine, FpABC)
KeyPfAidx == KeyString("pf", "a.md", NoLine, NoLine, FpABCidx)
KeyFullA1 == KeyString("full", "a.md", 3, 5, FpABCidx)
KeyFullA2 == KeyString("full", "a.md", 7, 9, FpABC)
KeyFullB == KeyString("full", "b.md", 3, 5, FpABC)

DiskOf(entries) == [present |-> TRUE, tables |-> entries, settingsProp |-> NoSettingsProp]

InitialDisks ==
  { NoData,
    DiskOf(<<[k |-> KeyPfA, v |-> StoredWide]>>),
    DiskOf(<<[k |-> KeyFullA1, v |-> StoredOld], [k |-> KeyFullA2, v |-> StoredNew]>>),
    DiskOf(<<[k |-> KeyFullA2, v |-> StoredNew], [k |-> KeyFullA1, v |-> StoredWide]>>),
    DiskOf(<<[k |-> BadKeyString, v |-> StoredOld], [k |-> KeyPfAidx, v |-> StoredNew]>>),
    DiskOf(<<[k |-> KeyPfA, v |-> StoredOld], [k |-> KeyFullB, v |-> StoredNew]>>) }

KeyInputs ==
  { TableKey("a.md", NoLine, NoLine, FpABC),
    TableKey("a.md", NoLine, NoLine, FpABCidx),
    TableKey("a.md", 3, 5, FpABC),
    TableKey("b.md", NoLine, NoLine, FpABC) }

CommitInputs ==
  { [ratios |-> RatiosEven3, lastPxWidth |-> 300, tablePxWidth |-> Absent],
    [ratios |-> Ratios235, lastPxWidth |-> 450, tablePxWidth |-> 450] }

RenameInputs == { <<"b.md", "a.md">>, <<"a.md", "b.md">> }

PathInputs == { "a.md", "b.md" }

InitHist ==
  /\ lastOp = "init"
  /\ lastResolve = NoResolve
  /\ used = NoneUsed
  /\ migrated = {}
  /\ lastCommit = NoCommit
  /\ durable = NoCommit

InitStore ==
  /\ call = NoCall /\ ret = NoRet
  /\ disk \in InitialDisks
  /\ dataStore = loadDataStore(disk).ds
  /\ heap = loadDataStore(disk).heap
  /\ inflight = <<>>
  /\ now = 2
  /\ table = NoTable /\ env = NoEnv /\ sched = NoSched
  /\ settings = DEFAULT_SETTINGS /\ drag = NoDrag /\ event = NoEvent
  /\ InitHist

NextStore ==
  \/ \E key \in KeyInputs : Resolve(key)
  \/ \E c \in CommitInputs : CommitSizes(c.ratios, c.lastPxWidth, c.tablePxWidth)
  \/ \E p \in RenameInputs : FileRename(p[1], p[2])
  \/ \E path \in PathInputs : LatestForPath(path)
  \/ FlushOk
  \/ FlushFail
  \/ Reload

SpecStore == InitStore /\ [][NextStore]_vars

(***************************************************************************)
(* The life of a table element                                             *)
(***************************************************************************)
MaxPending == 1

HeaderABC == <<"A", "B", "C">>
HeaderAXBC == <<"A", "X", "B", "C">>
HeaderA == <<"A">>

RenderedTable(hs, th, ho) ==
  [NoTable EXCEPT !.headers = hs, !.thead = th, !.host = ho, !.path = "a.md"]

TableInputs ==
  { RenderedTable(HeaderABC, TRUE, "reading"), RenderedTable(HeaderABC, TRUE, "cm6"),
    RenderedTable(HeaderABC, FALSE, "reading"), RenderedTable(HeaderAXBC, TRUE, "reading"),
    RenderedTable(HeaderAXBC, FALSE, "cm6"), RenderedTable(HeaderA, TRUE, "reading") }

NatWidthInputs == {0, 300}
LineWidthInputs == {0, 299, 700}
EnvInputs ==
  { [natW |-> n, lineW |-> l] : n \in NatWidthInputs, l \in LineWidthInputs }
    \ { [natW |-> 0, lineW |-> l] : l \in LineWidthInputs \ {0} }

\* th.getBoundingClientRect().width of the header cells: nothing while the table is
\* not laid out, else an even or an uneven split of the table's width.
HeaderWidthInputs(t, e) ==
  LET n == ColCount(t)
      w == RectWidth(t, e)
  IN  IF w = 0 THEN { [i \in 1 .. n |-> 0] }
      ELSE { [i \in 1 .. n |-> w \div n],
             [i \in 1 .. n |-> IF i = 1 THEN 40 ELSE (w - 40) \div Max(1, n - 1)] }

LineInputs == { <<NoLine, NoLine>>, <<3, 5>> }

\* The store effects of a notification that resolved r and ran the bind b: the
\* saves issued (by a migration, by the derive branch) and the history.
Notified(r, b) ==
  /\ Len(inflight) + (IF r.save THEN 1 ELSE 0) + (IF b.derived THEN 1 ELSE 0) <= MaxInflight
  /\ \E c \in { [k |-> r.key, v |-> Lookup(b.ds, b.heap, r.key), some |-> TRUE] } :
       /\ inflight' = (IF r.save THEN SaveDataStore(inflight, r.ds, r.heap, lastCommit)
                       ELSE inflight)
                      \o (IF b.derived THEN SaveDataStore(<<>>, b.ds, b.heap, c) ELSE <<>>)
       /\ lastCommit' = IF b.derived THEN c ELSE lastCommit
  /\ dataStore' = b.ds
  /\ heap' = b.heap
  /\ lastResolve' = IF r.how = "none" THEN lastResolve
                    ELSE [input |-> NoKey, key |-> r.key, how |-> r.how, scanned |-> r.scanned]
  /\ migrated' = IF r.how = "migrated" THEN migrated \cup {r.key} ELSE migrated

\* The Reading-view post processor renders the section: processReadingTables calls
\* attachResizersWithKey(table, key).
Bind(lineStart, lineEnd) ==
  /\ table.host = "reading"
  /\ \E hw \in HeaderWidthInputs(table, env) :
     \E key \in {KeyOf(table, lineStart, lineEnd)} :
     \E r \in {findOrMigrateToCanonicalKey(dataStore, heap, key)} :
     \E b \in {attachResizersWithKey(r, table, env, sched, key, hw, now)} :
       /\ b.sched.rafs <= MaxPending /\ b.sched.timers <= MaxPending
       /\ table' = b.table
       /\ sched' = b.sched
       /\ Notified(r, b)
  /\ lastOp' = "bind"
  /\ UNCHANGED <<uiVars, env, disk, now, durable, used, geomVars>>

\* The Live Preview viewport reports the table as intersecting: onIntersect runs
\* applyStoredRatiosPx, attachResizersWithKey and scheduleBreakoutForTable.
Intersect ==
  /\ table.host = "cm6"
  /\ table.path # ""
  /\ \E key \in {KeyOf(table, NoLine, NoLine)} :
     \E a \in {applyStoredRatiosPx(dataStore, heap, [table EXCEPT !.inactive = FALSE], env,
                                   key)} :
     \E hw \in HeaderWidthInputs(a.table, env) :
     \E r \in {findOrMigrateToCanonicalKey(a.res.ds, a.res.heap, key)} :
     \E b \in {attachResizersWithKey(r, a.table, env, sched, key, hw, now)} :
     \E sc \in {scheduleBreakoutForTable(b.sched, 0)} :
       /\ sc.rafs <= MaxPending /\ sc.timers <= MaxPending
       /\ table' = b.table
       /\ sched' = sc
       /\ Notified(IF a.res.how = "migrated" THEN a.res ELSE r, b)
  /\ lastOp' = "intersect"
  /\ UNCHANGED <<uiVars, env, disk, now, durable, used, geomVars>>

\* The animation frame of scheduleBreakoutForTable runs (at most maxTimers timers
\* are left waiting).
BreakoutFrameWithin(maxTimers) ==
  /\ sched.rafs > 0
  /\ \E b \in {updateBreakoutForTable(table, env,
                                       [sched EXCEPT !.rafs = @ - 1, !.rafSet = FALSE])} :
         /\ b.sched.timers <= maxTimers
         /\ table' = b.table
         /\ sched' = b.sched
    /\ lastOp' = "breakout"
  /\ UNCHANGED <<uiVars, env, storeVars, lastResolve, migrated, lastCommit, durable, used, geomVars>>

BreakoutFrame == BreakoutFrameWithin(MaxPending)

\* A setTimeout(schedule, delayMs) of scheduleBreakoutForTable expires: it requests
\* a frame without looking at breakoutRAF again (at most maxFrames frames are left
\* requested).
BreakoutTimerWithin(maxFrames) ==
  /\ sched.timers > 0
  /\ sched.rafs < maxFrames
  /\ sched' = [sched EXCEPT !.timers = @ - 1, !.rafs = @ + 1, !.rafSet = TRUE,
                             !.delay = IF sched.timers = 1 THEN 0 ELSE @]
  /\ lastOp' = "dom"
  /\ UNCHANGED <<uiVars, table, env, storeVars, lastResolve, migrated, lastCommit, durable, used,
                 geomVars>>

BreakoutTimer == BreakoutTimerWithin(MaxPending)

\* Mutant: the observer of the percent fallback is not disconnected.
PercentObserver_StayArmed ==
  /\ table.percentRO # NoRatios
  /\ LET w == RectWidth(table, env)
     IN  table' = IF w > 0
                  THEN [table EXCEPT !.cols = applyColWidths(RatiosToPx(table.percentRO, w))]
                  ELSE table
  /\ lastOp' = "dom"
  /\ UNCHANGED <<uiVars, env, sched, storeVars, lastResolve, migrated, lastCommit, durable, used,
                 geomVars>>

\* The one-shot ResizeObserver of the percent fallback reports the table's size.
PercentObserver ==
  /\ table.percentRO # NoRatios
  /\ LET w == RectWidth(table, env)
     IN  table' = IF w > 0
                  THEN [table EXCEPT !.cols = applyColWidths(RatiosToPx(table.percentRO, w)),
                                     !.percentRO = NoRatios, !.observers = @ - 1]
                  ELSE table
  /\ lastOp' = "dom"
  /\ UNCHANGED <<uiVars, env, sched, storeVars, lastResolve, migrated, lastCommit, durable, used,
                 geomVars>>

\* The host pane's ResizeObserver reports a size: the breakout is recomputed.
PaneObserver ==
  /\ table.bound
  /\ \E b \in {updateBreakoutForTable(table, env, sched)} :
         /\ b.sched.timers <= MaxPending
         /\ table' = b.table
         /\ sched' = b.sched
    /\ lastOp' = "breakout"
  /\ UNCHANGED <<uiVars, env, storeVars, lastResolve, migrated, lastCommit, durable, used, geomVars>>

\* The pane is resized, shown or hidden.
Layout(e) ==
  /\ e # env
  /\ env' = e
  /\ lastOp' = "dom"
  /\ UNCHANGED <<uiVars, table, sched, storeVars, lastResolve, migrated, lastCommit, durable, used,
                 geomVars>>

RenderDisks ==
  { NoData,
    DiskOf(<<[k |-> KeyPfA, v |-> StoredWide]>>),
    DiskOf(<<[k |-> KeyFullA1, v |-> StoredOld], [k |-> KeyFullA2, v |-> StoredNew]>>) }

Init ==
  /\ call = NoCall /\ ret = NoRet
  /\ disk \in RenderDisks
  /\ dataStore = loadDataStore(disk).ds
  /\ heap = loadDataStore(disk).heap
  /\ inflight = <<>>
  /\ now = 2
  /\ table \in TableInputs
  /\ env = NoEnv
  /\ sched = NoSched
  /\ settings = DEFAULT_SETTINGS /\ drag = NoDrag /\ event = NoEvent
  /\ InitHist

Next ==
  \/ \E l \in LineInputs : Bind(l[1], l[2])
  \/ Intersect
  \/ BreakoutFrame
  \/ BreakoutTimer
  \/ PercentObserver
  \/ PaneObserver
  \/ \E e \in EnvInputs : Layout(e)
  \/ FlushOk
  \/ FlushFail

Spec == Init /\ [][Next]_vars

(***************************************************************************)
(* The table's own ResizeObserver and the scheduling of breakout           *)
(* evaluations                                                             *)
(***************************************************************************)
\* The ResizeObserver of attachResizeObserver reports the table's size: a frame is
\* requested unless layoutPending is set.
TableObserver ==
  /\ table.bound
  /\ sched' = IF sched.layoutPending THEN sched ELSE [sched EXCEPT !.layoutPending = TRUE]
  /\ lastOp' = "observer"
  /\ UNCHANGED <<uiVars, table, env, storeVars, lastResolve, migrated, lastCommit, durable, used,
                 geomVars>>

\* The frame of the table's ResizeObserver runs: the handles are repositioned and
\* scheduleBreakoutForTable(table) is called.
LayoutFrame ==
  /\ sched.layoutPending
  /\ \E sc \in {scheduleBreakoutForTable([sched EXCEPT !.layoutPending = FALSE], 0)} :
       /\ sc.rafs <= MaxPending
       /\ sched' = sc
  /\ lastOp' = "layout"
  /\ UNCHANGED <<uiVars, table, env, storeVars, lastResolve, migrated, lastCommit, durable, used,
                 geomVars>>

BreakoutTables ==
  { RenderedTable(HeaderABC, TRUE, "reading"), RenderedTable(HeaderABC, TRUE, "cm6") }

InitBreakout ==
  /\ call = NoCall /\ ret = NoRet
  /\ disk = DiskOf(<<[k |-> KeyPfA, v |-> StoredWide]>>)
  /\ dataStore = loadDataStore(disk).ds
  /\ heap = loadDataStore(disk).heap
  /\ inflight = <<>>
  /\ now = 2
  /\ table \in BreakoutTables
  /\ env = NoEnv
  /\ sched = NoSched
  /\ settings = DEFAULT_SETTINGS /\ drag = NoDrag /\ event = NoEvent
  /\ InitHist

NextBreakout ==
  \/ \E l \in LineInputs : Bind(l[1], l[2])
  \/ Intersect
  \/ BreakoutFrame
  \/ BreakoutTimer
  \/ PaneObserver
  \/ TableObserver
  \/ LayoutFrame
  \/ \E e \in EnvInputs : Layout(e)

SpecBreakout == InitBreakout /\ [][NextBreakout]_vars

\* The retries left to themselves: the notifications leave at most MaxPending timers
\* and MaxPending frames waiting, and no retry adds to their number, so that no
\* bound holds back a timer or a frame; the browser runs every frame it was asked
\* for and every timer expires.
MaxChains == 2 * MaxPending
RetryFrame == BreakoutFrameWithin(MaxChains)
RetryTimer == BreakoutTimerWithin(MaxChains)

NextRetry ==
  \/ \E l \in LineInputs : Bind(l[1], l[2])
  \/ Intersect
  \/ PaneObserver
  \/ TableObserver
  \/ LayoutFrame
  \/ \E e \in EnvInputs : Layout(e)
  \/ RetryFrame
  \/ RetryTimer

SpecRetry ==
  InitBreakout /\ [][NextRetry]_vars /\ WF_vars(RetryFrame) /\ WF_vars(RetryTimer)

(***************************************************************************)
(* The handles of a bound table.  A handler is an operator from the state  *)
(* it reads to the state it leaves; the actions below deliver the events.  *)
(* Column indices are the code's (0-based); sequences are 1-based.         *)
(***************************************************************************)

\* getColWidths(cols): parseFloat of each <col>'s style width without 'px'; a <col>
\* with no width reads 0, a percent width reads as its number (kept to whole
\* percents here; the handlers below run on pixel widths).
getColWidths(t) ==
  IF t.cols.unit = "px" THEN t.cols.w
  ELSE IF t.cols.unit = "pct" THEN [i \in DOMAIN t.cols.w |-> t.cols.w[i] \div 100]
  ELSE [i \in 1 .. ColCount(t) |-> 0]

\* cur[colIndex] = newLeft; cur[colIndex + 1] = newRight
SetPair(cur, colIndex, newLeft, newRight) ==
  [cur EXCEPT ![colIndex + 1] = newLeft, ![colIndex + 2] = newRight]

\* Mutant: the widths are divided by the container width, not by their sum.
ColumnRecord_ByContainer(t, cur, clock) ==
  TableSizes([nums |-> cur, den |-> Max(1, t.containerWidth)], t.containerWidth, Absent,
             NoRowHeights, clock)

\* tables[resolvedKeyStr] = { ratios, lastPxWidth: containerWidth, updatedAt }
ColumnRecord(t, cur, clock) ==
  TableSizes(normalizeRatios(cur), t.containerWidth, Absent, NoRowHeights, clock)

\* Column handle pointerdown: nothing without Alt when requireAltToDrag is set, else
\* the closure records the pair's widths and becomes active.
columnPointerDown(t, st, colIndex, alt) ==
  IF st.requireAltToDrag /\ ~alt THEN NoDrag
  ELSE [NoDrag EXCEPT !.kind = "col", !.index = colIndex,
                      !.leftWidth = getColWidths(t)[colIndex + 1],
                      !.rightWidth = getColWidths(t)[colIndex + 2]]

\* Mutant: the pair is moved by the raw delta, with no minimum.
columnPointerMove_Raw(t, d, dx, ctrl) ==
  [t EXCEPT !.cols = [unit |-> "px",
                      w |-> SetPair(getColWidths(t), d.index, d.leftWidth + dx,
                                    d.rightWidth - dx)]]

\* onPointerMove: the pair is redistributed from the widths recorded at pointerdown.
columnPointerMove(t, d, dx, ctrl) ==
  LET res == applyDeltaWithSnap(d.leftWidth, d.rightWidth, d.leftWidth + d.rightWidth, dx,
                                minColumnWidthPx, snapStepPx, ctrl)
  IN  [t EXCEPT !.cols = applyColWidths(SetPair(getColWidths(t), d.index, res.newLeft,
                                                res.newRight))]

\* Mutant: the larger half of an odd total goes to the left column.
resetPair_CeilLeft(total) ==
  LET half == Max(minColumnWidthPx, total - MathFloor(total, 2))
  IN  [newLeft |-> half, newRight |-> total - half]

\* reset: half = Math.max(min, Math.floor(total / 2)); the right column gets the rest.
resetPair(total) ==
  LET half == Max(minColumnWidthPx, MathFloor(total, 2))
  IN  [newLeft |-> half, newRight |-> total - half]

\* autofit: the delta to the measured width fit is redistributed with snapping.
autofitPair(left, right, fit) ==
  applyDeltaWithSnap(left, right, left + right, fit - left, minColumnWidthPx, snapStepPx, FALSE)

\* The widths cur after the dblclick handler's action branch; cur itself with
\* doubleClickAction "none".
DoubleAction(cur, st, colIndex, fit) ==
  LET left == cur[colIndex + 1]
      right == cur[colIndex + 2]
  IN  IF st.doubleClickAction = "autofit"
      THEN SetPair(cur, colIndex, autofitPair(left, right, fit).newLeft,
                   autofitPair(left, right, fit).newRight)
      ELSE IF st.doubleClickAction = "reset"
      THEN SetPair(cur, colIndex, resetPair(left + right).newLeft,
                   resetPair(left + right).newRight)
      ELSE cur

\* Column handle dblclick: widths are applied in the autofit and reset branches;
\* the record is stored and saved in every case.
columnDblClick(t, st, colIndex, fit) ==
  [table |-> IF st.doubleClickAction \in {"autofit", "reset"}
             THEN [t EXCEPT !.cols = applyColWidths(DoubleAction(getColWidths(t), st,
                                                                 colIndex, fit))]
             ELSE t,
   cur |-> DoubleAction(getColWidths(t), st, colIndex, fit),
   used |-> TRUE]

\* Column handle keydown: the arrows move the boundary by the keyboard step (1 with
\* Ctrl/Cmd) without snapping; Enter and Space run the configured action; used
\* tells whether widths were applied and the record stored.
columnKeyDown(t, st, colIndex, key, ctrl, fit) ==
  LET cur == getColWidths(t)
      left == cur[colIndex + 1]
      right == cur[colIndex + 2]
      step == IF ctrl THEN 1 ELSE keyboardStepPx
      arrow == applyDeltaWithSnap(left, right, left + right,
                                  IF key = "ArrowLeft" THEN 0 - step ELSE step,
                                  minColumnWidthPx, snapStepPx, TRUE)
      next == IF key \in {"ArrowLeft", "ArrowRight"}
              THEN SetPair(cur, colIndex, arrow.newLeft, arrow.newRight)
              ELSE DoubleAction(cur, st, colIndex, fit)
      handled == \/ key \in {"ArrowLeft", "ArrowRight"}
                 \/ key \in {"Enter", " "} /\ st.doubleClickAction \in {"autofit", "reset"}
  IN  [table |-> IF handled THEN [t EXCEPT !.cols = applyColWidths(next)] ELSE t,
       cur |-> next,
       used |-> handled]

\* Mutant: capped by outerMaxWidthPx first, then raised to colCount * min.
outerTarget_MaxFirst(totalStart, dx, colCount, st) ==
  LET minTotal == colCount * minColumnWidthPx
      t1 == IF st.outerMaxWidthPx > 0 THEN Min(totalStart + dx, st.outerMaxWidthPx)
            ELSE totalStart + dx
  IN  IF t1 < minTotal THEN minTotal ELSE t1

\* The outer handle's target: totalStart + dx, raised to colCount * min, then capped
\* by outerMaxWidthPx when that is positive.
outerTarget(totalStart, dx, colCount, st) ==
  LET minTotal == colCount * minColumnWidthPx
      t1 == IF totalStart + dx < minTotal THEN minTotal ELSE totalStart + dx
  IN  IF st.outerMaxWidthPx > 0 THEN Min(t1, st.outerMaxWidthPx) ELSE t1

\* The widths of scale and edge mode as onOMove and onKey compute them.
outerNext(cur, targetTotal, st) ==
  computeNext(cur, targetTotal, st.outerHandleMode, minColumnWidthPx)

\* Outer handle pointerdown: the closure records every column width.
outerPointerDown(t) == [NoDrag EXCEPT !.kind = "outer", !.startPx = getColWidths(t)]

\* onOMove: the widths of startPx for the target, and the table's style width.
outerPointerMove(t, d, dx, st) ==
  LET targetTotal == outerTarget(SumSeq(d.startPx), dx, ColCount(t), st)
  IN  [t EXCEPT !.cols = applyColWidths(outerNext(d.startPx, targetTotal, st)),
                !.styleW = targetTotal]

\* tables[resolvedKeyStr] = { ratios, lastPxWidth: total, tablePxWidth: total, updatedAt }
OuterRecord(px, total, clock) ==
  TableSizes(normalizeRatios(px), total, total, NoRowHeights, clock)

\* Outer handle keydown before its breakout update: the widths for the target a
\* keyboard step away, and the table's style width.
outerKeyDown(t, st, key, ctrl) ==
  LET cur == getColWidths(t)
      step == IF ctrl THEN 1 ELSE keyboardStepPx
      targetTotal == outerTarget(SumSeq(cur), IF key = "ArrowLeft" THEN 0 - step ELSE step,
                                 ColCount(t), st)
  IN  [table |-> [t EXCEPT !.cols = applyColWidths(outerNext(cur, targetTotal, st)),
                           !.styleW = targetTotal],
       next |-> outerNext(cur, targetTotal, st),
       targetTotal |-> targetTotal]

\* row.getBoundingClientRect().height: the content's height, or the style height
\* when that is larger.
RowNaturalHeightPx == 30
RowRectHeight(t, rIndex) ==
  IF rIndex \in DOMAIN t.rowHeights THEN Max(t.rowHeights[rIndex], RowNaturalHeightPx)
  ELSE RowNaturalHeightPx

\* obj[k] = v
Put(f, k, v) == [x \in DOMAIN f \cup {k} |-> IF x = k THEN v ELSE f[x]]

\* Row handle pointerdown: the closure records the row's height.
rowPointerDown(t, rIndex) ==
  [NoDrag EXCEPT !.kind = "row", !.index = rIndex, !.startHeight = RowRectHeight(t, rIndex)]

\* onRMove: row.style.height = max(rowMin, floor(startHeight + dy)) px
rowPointerMove(t, d, dy) ==
  [t EXCEPT !.rowHeights = Put(@, d.index, Max(rowMinHeightPx, d.startHeight + dy))]

\* Row handle keydown: the height the handler ends with, and whether it applied and
\* stored it.  Enter and Space clear the style height of a row that has one; the
\* height measured before is then written back.
rowKeyDown(t, rIndex, key, ctrl) ==
  LET rect == RowRectHeight(t, rIndex)
      step == IF ctrl THEN 1 ELSE rowKeyboardStepPx
      target == IF key = "ArrowUp" THEN Max(rowMinHeightPx, rect - step)
                ELSE IF key = "ArrowDown" THEN Max(rowMinHeightPx, rect + step)
                ELSE rect
      handled == \/ key \in {"ArrowUp", "ArrowDown"}
                 \/ key \in {"Enter", " "} /\ rIndex \in DOMAIN t.rowHeights
  IN  [table |-> IF handled THEN [t EXCEPT !.rowHeights = Put(@, rIndex, target)] ELSE t,
       target |-> target,
       used |-> handled]

\* Mutant: the record gets a fresh row-height map holding the committed row only.
rowCommit_FreshMap(ds, h, t, rIndex, height, clock) ==
  IF HasKey(ds.tables, t.resolvedKeyStr)
  THEN [ds |-> ds,
        heap |-> [h EXCEPT ![RefOf(ds.tables, t.resolvedKeyStr)] =
                    [@ EXCEPT !.rowHeights = (rIndex :> height), !.updatedAt = clock]]]
  ELSE PutNew(ds, h, t.resolvedKeyStr,
              TableSizes(normalizeRatios(getColWidths(t)), Absent, Absent,
                         (rIndex :> height), clock))

\* The row handlers' commit: the record under the key is changed in place (a new
\* one with the fallback ratios is made when the key is absent).
rowCommit(ds, h, t, rIndex, height, clock) ==
  IF HasKey(ds.tables, t.resolvedKeyStr)
  THEN [ds |-> ds,
        heap |-> [h EXCEPT ![RefOf(ds.tables, t.resolvedKeyStr)] =
                    [@ EXCEPT !.rowHeights = Put(@, rIndex, height), !.updatedAt = clock]]]
  ELSE PutNew(ds, h, t.resolvedKeyStr,
              TableSizes(IF t.storedRatios # NoRatios THEN t.storedRatios
                         ELSE normalizeRatios(getColWidths(t)),
                         Absent, Absent, (rIndex :> height), clock))

(***************************************************************************)
(* Events on the handles of a bound, laid-out table whose columns have     *)
(* their pixel widths (the percent fallback ends with the first size the   *)
(* table gets, before an event can reach a handle).  One pointer: a drag   *)
(* starts only while no other is active.                                   *)
(***************************************************************************)
MaxResizes == 1

Delivered(kind, type, index, alt, key, target) ==
  [kind |-> kind, type |-> type, index |-> index, alt |-> alt, key |-> key,
   target |-> target]

Interactive ==
  /\ table.bound
  /\ env.natW > 0
  /\ table.cols.unit = "px"

\* A handler stored a record under resolvedKeyStr and called saveDataStore.
Committed(ds2, h2) ==
  /\ Len(inflight) < MaxInflight
  /\ used.commits < MaxResizes
  /\ used' = [used EXCEPT !.commits = @ + 1]
  /\ dataStore' = ds2
  /\ heap' = h2
  /\ \E c \in {[k |-> table.resolvedKeyStr, v |-> Lookup(ds2, h2, table.resolvedKeyStr),
                 some |-> TRUE]} :
       /\ lastCommit' = c
       /\ inflight' = SaveDataStore(inflight, ds2, h2, c)
  /\ now' = now + 1

NotCommitted == UNCHANGED <<dataStore, heap, inflight, lastCommit, now, used>>

ColPointerDown(colIndex, alt) ==
  /\ Interactive /\ drag.kind = "none"
  /\ used.commits < MaxResizes
  /\ drag' = columnPointerDown(table, settings, colIndex, alt)
  /\ event' = Delivered("col", "pointerdown", colIndex, alt, "none", 0)
  /\ lastOp' = "pointerdown"
  /\ NotCommitted
  /\ UNCHANGED <<settings, domVars, disk, lastResolve, migrated, durable, geomVars>>

ColPointerMove(dx, ctrl) ==
  /\ Interactive /\ drag.kind = "col"
  /\ table' = columnPointerMove(table, drag, dx, ctrl)
  /\ event' = Delivered("col", "pointermove", drag.index, FALSE, "none", 0)
  /\ lastOp' = "pointermove"
  /\ NotCommitted
  /\ UNCHANGED <<settings, drag, env, sched, disk, lastResolve, migrated, durable,
                 geomVars>>

ColPointerUp ==
  /\ Interactive /\ drag.kind = "col"
  /\ \E p \in {PutNew(dataStore, heap, table.resolvedKeyStr,
                       ColumnRecord(table, getColWidths(table), now))} :
       Committed(p.ds, p.heap)
  /\ drag' = NoDrag
  /\ event' = Delivered("col", "pointerup", drag.index, FALSE, "none", 0)
  /\ lastOp' = "pointerup"
  /\ UNCHANGED <<settings, domVars, disk, lastResolve, migrated, durable, geomVars>>

ColDblClick(colIndex, fit) ==
  /\ Interactive /\ drag.kind = "none"
  /\ \E r \in {columnDblClick(table, settings, colIndex, fit)} :
     \E p \in {PutNew(dataStore, heap, table.resolvedKeyStr,
                       ColumnRecord(table, r.cur, now))} :
       /\ table' = r.table
       /\ Committed(p.ds, p.heap)
  /\ event' = Delivered("col", "dblclick", colIndex, FALSE, "none", 0)
  /\ lastOp' = "dblclick"
  /\ UNCHANGED <<settings, drag, env, sched, disk, lastResolve, migrated, durable,
                 geomVars>>

ColKeyDown(colIndex, key, ctrl, fit) ==
  /\ Interactive /\ drag.kind = "none"
  /\ \E r \in {columnKeyDown(table, settings, colIndex, key, ctrl, fit)} :
       /\ table' = r.table
       /\ IF r.used
          THEN \E p \in {PutNew(dataStore, heap, table.resolvedKeyStr,
                                ColumnRecord(table, r.cur, now))} :
                 Committed(p.ds, p.heap)
          ELSE NotCommitted
  /\ event' = Delivered("col", "keydown", colIndex, FALSE, key, 0)
  /\ lastOp' = "keydown"
  /\ UNCHANGED <<settings, drag, env, sched, disk, lastResolve, migrated, durable,
                 geomVars>>

OuterPointerDown(alt) ==
  /\ Interactive /\ drag.kind = "none"
  /\ used.commits < MaxResizes
  /\ drag' = outerPointerDown(table)
  /\ sched' = [sched EXCEPT !.outerDragActive = TRUE]
  /\ event' = Delivered("outer", "pointerdown", 0, alt, "none", 0)
  /\ lastOp' = "pointerdown"
  /\ NotCommitted
  /\ UNCHANGED <<settings, table, env, disk, lastResolve, migrated, durable, geomVars>>

OuterPointerMove(dx) ==
  /\ Interactive /\ drag.kind = "outer"
  /\ table' = outerPointerMove(table, drag, dx, settings)
  /\ \E sc \in {scheduleBreakoutForTable(sched, 0)} :
       /\ sc.rafs <= MaxPending
       /\ sched' = sc
  /\ event' = Delivered("outer", "pointermove", 0, FALSE, "none",
                        outerTarget(SumSeq(drag.startPx), dx, ColCount(table), settings))
  /\ lastOp' = "pointermove"
  /\ NotCommitted
  /\ UNCHANGED <<settings, drag, env, disk, lastResolve, migrated, durable, geomVars>>

OuterPointerUp ==
  /\ Interactive /\ drag.kind = "outer"
  /\ \E p \in {PutNew(dataStore, heap, table.resolvedKeyStr,
                       OuterRecord(getColWidths(table), SumSeq(getColWidths(table)), now))} :
       Committed(p.ds, p.heap)
  /\ \E sc \in {scheduleBreakoutForTable([sched EXCEPT !.outerDragActive = FALSE], 0)} :
       /\ sc.rafs <= MaxPending
       /\ sched' = sc
  /\ drag' = NoDrag
  /\ event' = Delivered("outer", "pointerup", 0, FALSE, "none", 0)
  /\ lastOp' = "pointerup"
  /\ UNCHANGED <<settings, table, env, disk, lastResolve, migrated, durable, geomVars>>

OuterKeyDown(key, ctrl) ==
  /\ Interactive /\ drag.kind = "none"
  /\ IF key \in {"ArrowLeft", "ArrowRight"}
     THEN \E r \in {outerKeyDown(table, settings, key, ctrl)} :
          \E b \in {updateBreakoutForTable(r.table, env, sched)} :
          \E p \in {PutNew(dataStore, heap, table.resolvedKeyStr,
                            OuterRecord(r.next, r.targetTotal, now))} :
            /\ b.sched.timers <= MaxPending
            /\ table' = b.table
            /\ sched' = b.sched
            /\ Committed(p.ds, p.heap)
            /\ event' = Delivered("outer", "keydown", 0, FALSE, key, r.targetTotal)
     ELSE /\ NotCommitted
          /\ event' = Delivered("outer", "keydown", 0, FALSE, key, 0)
          /\ UNCHANGED <<table, sched>>
  /\ lastOp' = "keydown"
  /\ UNCHANGED <<settings, drag, env, disk, lastResolve, migrated, durable, geomVars>>

RowPointerDown(rIndex, alt) ==
  /\ Interactive /\ drag.kind = "none"
  /\ used.commits < MaxResizes
  /\ drag' = rowPointerDown(table, rIndex)
  /\ event' = Delivered("row", "pointerdown", rIndex, alt, "none", 0)
  /\ lastOp' = "pointerdown"
  /\ NotCommitted
  /\ UNCHANGED <<settings, domVars, disk, lastResolve, migrated, durable, geomVars>>

RowPointerMove(dy) ==
  /\ Interactive /\ drag.kind = "row"
  /\ table' = rowPointerMove(table, drag, dy)
  /\ event' = Delivered("row", "pointermove", drag.index, FALSE, "none", 0)
  /\ lastOp' = "pointermove"
  /\ NotCommitted
  /\ UNCHANGED <<settings, drag, env, sched, disk, lastResolve, migrated, durable,
                 geomVars>>

RowPointerUp ==
  /\ Interactive /\ drag.kind = "row"
  /\ \E p \in {rowCommit(dataStore, heap, table, drag.index,
                          Max(rowMinHeightPx, RowRectHeight(table, drag.index)), now)} :
       Committed(p.ds, p.heap)
  /\ drag' = NoDrag
  /\ event' = Delivered("row", "pointerup", drag.index, FALSE, "none", 0)
  /\ lastOp' = "pointerup"
  /\ UNCHANGED <<settings, domVars, disk, lastResolve, migrated, durable, geomVars>>

RowKeyDown(rIndex, key, ctrl) ==
  /\ Interactive /\ drag.kind = "none"
  /\ \E r \in {rowKeyDown(table, rIndex, key, ctrl)} :
       /\ table' = r.table
       /\ IF r.used
          THEN \E p \in {rowCommit(dataStore, heap, table, rIndex, r.target, now)} :
                 Committed(p.ds, p.heap)
          ELSE NotCommitted
  /\ event' = Delivered("row", "keydown", rIndex, FALSE, key, 0)
  /\ lastOp' = "keydown"
  /\ UNCHANGED <<settings, drag, env, sched, disk, lastResolve, migrated, durable,
                 geomVars>>

(***************************************************************************)
(* Resizing a table: it is bound in Reading view, then its handles are used *)
(***************************************************************************)
SettingsInputs ==
  { DEFAULT_SETTINGS,
    [requireAltToDrag |-> TRUE, doubleClickAction |-> "reset", outerHandleMode |-> "scale",
     outerMaxWidthPx |-> 310],
    [requireAltToDrag |-> TRUE, doubleClickAction |-> "none", outerHandleMode |-> "edge",
     outerMaxWidthPx |-> 100] }

\* A record an outer drag left at 210, 180 and 210 px, with one row height.
Ratios767 == [nums |-> <<7, 6, 7>>, den |-> 20]
StoredOdd == TableSizes(Ratios767, 600, 600, (0 :> 40), 1)

ResizeDisks ==
  { NoData, DiskOf(<<[k |-> KeyPfA, v |-> StoredOdd]>>) }

ResizeEnvInputs == { [natW |-> 300, lineW |-> 299] }

ColIndexInputs == {0, 1}
RowIndexInputs == 0 .. (NumRows - 1)
\* Pointer moves <<delta, ctrlKey>> and keys <<key, ctrlKey>>.
ColMoveInputs == { <<-100, FALSE>>, <<13, FALSE>>, <<13, TRUE>> }
OuterMoveInputs == {-200, 37}
RowMoveInputs == {-20, 7}
AutofitInputs == {95}
ColKeyInputs == { <<"ArrowLeft", FALSE>>, <<"ArrowRight", TRUE>>, <<"Enter", FALSE>>,
                  <<" ", FALSE>> }
OuterKeyInputs == { <<"ArrowLeft", FALSE>>, <<"ArrowRight", TRUE>>, <<"Tab", FALSE>> }
RowKeyInputs == { <<"ArrowUp", FALSE>>, <<"ArrowDown", TRUE>>, <<"Enter", FALSE>> }

InitResize ==
  /\ call = NoCall /\ ret = NoRet
  /\ disk \in ResizeDisks
  /\ dataStore = loadDataStore(disk).ds
  /\ heap = loadDataStore(disk).heap
  /\ inflight = <<>>
  /\ now = 2
  /\ table = RenderedTable(HeaderABC, TRUE, "reading")
  /\ env \in ResizeEnvInputs
  /\ sched = NoSched
  /\ settings \in SettingsInputs /\ drag = NoDrag /\ event = NoEvent
  /\ InitHist

NextResize ==
  \/ \E l \in LineInputs : Bind(l[1], l[2])
  \/ \E i \in ColIndexInputs, alt \in BOOLEAN : ColPointerDown(i, alt)
  \/ \E m \in ColMoveInputs : ColPointerMove(m[1], m[2])
  \/ ColPointerUp
  \/ \E i \in ColIndexInputs, fit \in AutofitInputs : ColDblClick(i, fit)
  \/ \E i \in ColIndexInputs, k \in ColKeyInputs, fit \in AutofitInputs :
       ColKeyDown(i, k[1], k[2], fit)
  \/ \E alt \in BOOLEAN : OuterPointerDown(alt)
  \/ \E dx \in OuterMoveInputs : OuterPointerMove(dx)
  \/ OuterPointerUp
  \/ \E k \in OuterKeyInputs : OuterKeyDown(k[1], k[2])
  \/ \E r \in RowIndexInputs, alt \in BOOLEAN : RowPointerDown(r, alt)
  \/ \E dy \in RowMoveInputs : RowPointerMove(dy)
  \/ RowPointerUp
  \/ \E r \in RowIndexInputs, k \in RowKeyInputs : RowKeyDown(r, k[1], k[2])
  \/ BreakoutFrame
  \/ FlushOk

SpecResize == InitResize /\ [][NextResize]_vars

(***************************************************************************)
(* The outer handle of OuterWidthHandleManager: pointer moves only record   *)
(* the target and request one animation frame; the frame callback commit    *)
(* applies the recorded target.  drag.rafId tells whether rafId is set,     *)
(* drag.rafs counts the frame callbacks requested and neither run nor       *)
(* cancelled, drag.pendingTargetTotal is -1 for null.                       *)
(***************************************************************************)
\* commit(): rafId = null; the pending target, if any, is applied to the columns
\* and the table's style width.
commit(t, d, st) ==
  [table |-> IF d.pendingTargetTotal = -1 THEN t
             ELSE [t EXCEPT !.cols = applyColWidths(outerNext(d.startPx, d.pendingTargetTotal,
                                                              st)),
                            !.styleW = d.pendingTargetTotal],
   drag |-> [d EXCEPT !.rafId = FALSE, !.pendingTargetTotal = -1]]

\* Mutant: every pointer move requests a frame.
onOMove_AlwaysRequest(d, dx, colCount, st) ==
  [d EXCEPT !.pendingTargetTotal = outerTarget(SumSeq(d.startPx), dx, colCount, st),
            !.rafId = TRUE,
            !.rafs = @ + 1]

\* onOMove: pendingTargetTotal = targetTotal; a frame is requested when none is.
onOMove(d, dx, colCount, st) ==
  [d EXCEPT !.pendingTargetTotal = outerTarget(SumSeq(d.startPx), dx, colCount, st),
            !.rafId = TRUE,
            !.rafs = IF d.rafId THEN @ ELSE @ + 1]

\* Mutant: the release does not flush the pending frame.
onOUp_NoFlush(t, d, st) ==
  [table |-> t,
   drag |-> [d EXCEPT !.rafs = IF d.rafId THEN @ - 1 ELSE @, !.rafId = FALSE,
                      !.pendingTargetTotal = -1]]

\* onOUp before it stores: a pending frame is cancelled and commit() runs at once.
onOUp(t, d, st) ==
  IF d.rafId
  THEN [table |-> commit(t, d, st).table,
        drag |-> [commit(t, d, st).drag EXCEPT !.rafs = @ - 1]]
  ELSE [table |-> t, drag |-> d]

CoalescedPointerDown ==
  /\ Interactive /\ drag.kind = "none"
  /\ used.commits < MaxResizes
  /\ drag' = outerPointerDown(table)
  /\ sched' = [sched EXCEPT !.outerDragActive = TRUE]
  /\ event' = Delivered("outer", "pointerdown", 0, FALSE, "none", 0)
  /\ lastOp' = "pointerdown"
  /\ NotCommitted
  /\ UNCHANGED <<settings, table, env, disk, lastResolve, migrated, durable, geomVars>>

CoalescedPointerMove(dx) ==
  /\ Interactive /\ drag.kind = "outer"
  /\ drag' = onOMove(drag, dx, ColCount(table), settings)
  /\ event' = Delivered("outer", "pointermove", 0, FALSE, "none",
                        outerTarget(SumSeq(drag.startPx), dx, ColCount(table), settings))
  /\ lastOp' = "pointermove"
  /\ NotCommitted
  /\ UNCHANGED <<settings, domVars, disk, lastResolve, migrated, durable, geomVars>>

\* The animation frame requested by onOMove arrives.
CoalescedFrame ==
  /\ drag.rafs > 0
  /\ \E c \in {commit(table, drag, settings)} :
       /\ table' = c.table
       /\ drag' = [c.drag EXCEPT !.rafs = @ - 1]
  /\ lastOp' = "frame"
  /\ NotCommitted
  /\ UNCHANGED <<settings, event, env, sched, disk, lastResolve, migrated, durable,
                 geomVars>>

\* onOUp: flush, store the widths read back, recompute the breakout and schedule
\* another pass, save.
CoalescedPointerUp ==
  /\ Interactive /\ drag.kind = "outer"
  /\ \E u \in {onOUp(table, drag, settings)} :
     \E p \in {PutNew(dataStore, heap, table.resolvedKeyStr,
                       OuterRecord(getColWidths(u.table), SumSeq(getColWidths(u.table)),
                                   now))} :
     \E b \in {updateBreakoutForTable(u.table, env,
                                       [sched EXCEPT !.outerDragActive = FALSE])} :
     \E sc \in {scheduleBreakoutForTable(b.sched, 0)} :
       /\ sc.rafs <= MaxPending /\ sc.timers <= MaxPending
       /\ table' = b.table
       /\ sched' = sc
       /\ drag' = [NoDrag EXCEPT !.rafs = u.drag.rafs]
       /\ event' = Delivered("outer", "pointerup", 0, FALSE, "none",
                             IF drag.rafId THEN drag.pendingTargetTotal ELSE 0)
       /\ Committed(p.ds, p.heap)
  /\ lastOp' = "pointerup"
  /\ UNCHANGED <<settings, env, disk, lastResolve, migrated, durable, geomVars>>

InitOuterDrag == InitResize

NextOuterDrag ==
  \/ \E l \in LineInputs : Bind(l[1], l[2])
  \/ CoalescedPointerDown
  \/ \E dx \in OuterMoveInputs : CoalescedPointerMove(dx)
  \/ CoalescedFrame
  \/ CoalescedPointerUp
  \/ BreakoutFrame
  \/ FlushOk

SpecOuterDrag == InitOuterDrag /\ [][NextOuterDrag]_vars

(***************************************************************************)
(* Calls of canonicalKeyString on two table keys                           *)
(***************************************************************************)
FpABCidx1 == FpABC \o <<"#", "1">>

IdentityInputs ==
  { TableKey(p, l[1], l[2], fp) :
      p \in {"a.md", "b.md"}, l \in {<<NoLine, NoLine>>, <<3, 5>>, <<7, 9>>},
      fp \in {FpABC, FpABCidx, FpABCidx1, FpAXBC} }

CanonicalKeyCalls ==
  { [NoCall EXCEPT !.fn = "canonicalKeyString", !.key1 = a, !.key2 = b] :
      a \in IdentityInputs, b \in IdentityInputs }

CallCanonicalKey ==
  /\ call.fn = "canonicalKeyString" /\ ret.fn = "none"
  /\ ret' = [NoRet EXCEPT !.fn = call.fn, !.k1 = canonicalKeyString(call.key1),
                          !.k2 = canonicalKeyString(call.key2)]
  /\ UNCHANGED <<uiVars, call, storeVars, histVars, domVars>>

InitGeom ==
  /\ call \in ApplyDeltaCalls \cup NormalizeCalls \cup ComputeNextCalls \cup CanonicalKeyCalls
  /\ ret = NoRet
  /\ disk = NoData
  /\ dataStore = EmptyDataStore
  /\ heap = <<>>
  /\ inflight = <<>>
  /\ now = 2
  /\ table = NoTable /\ env = NoEnv /\ sched = NoSched
  /\ settings = DEFAULT_SETTINGS /\ drag = NoDrag /\ event = NoEvent
  /\ InitHist

NextGeom == CallApplyDelta \/ CallNormalize \/ CallComputeNext \/ CallCanonicalKey

SpecGeom == InitGeom /\ [][NextGeom]_vars

(***************************************************************************)
(* Claims about the geometry utilities (checked under SpecGeom)            *)
(***************************************************************************)

\* C1: every applyDeltaWithSnap call with 2*min <= total returns newLeft >= min,
\* newRight >= min and newLeft + newRight = total, whatever delta, step and snap.
C1_RedistributeWithinBounds ==
  (ret.fn = "applyDeltaWithSnap" /\ 2 * call.minPx <= call.total) =>
     /\ ret.newLeft >= call.minPx
     /\ ret.newRight >= call.minPx
     /\ ret.newLeft + ret.newRight = call.total

\* C1 witness: a snapping call whose rounded value left [min, total - min], so that
\* the second clamp decided the result.
C1_Witness ==
  /\ ret.fn = "applyDeltaWithSnap"
  /\ 2 * call.minPx <= call.total
  /\ ~call.disableSnap /\ call.step > 0
  /\ roundToStep(Max(call.minPx, Min(call.total - call.minPx, call.left + call.dx)), call.step)
        > call.total - call.minPx
  /\ ret.newLeft = call.total - call.minPx

\* The value of [lo, hi] nearest to x; lo when the interval is empty.
ClampTo(lo, hi, x) == IF x < lo \/ hi < lo THEN lo ELSE IF x > hi THEN hi ELSE x

\* The multiple of step nearest to v, the larger one on a tie.
NearestMultiple(v, step) ==
  LET cands == { k * step : k \in ((v \div step) - 1) .. ((v \div step) + 1) }
  IN  CHOOSE m \in cands :
        \A m2 \in cands : \/ Abs(m - v) < Abs(m2 - v)
                          \/ (Abs(m - v) = Abs(m2 - v) /\ m >= m2)

\* C2: newLeft is clamp(nearest multiple of step to clamp(left + delta)) when
\* snapping is active and step > 0, clamp(left + delta) otherwise, and newRight is
\* total - newLeft; min 60, step 8, pair [200,200], delta +37 gives 240 / 160.
C2_ClampSnapReclamp ==
  ret.fn = "applyDeltaWithSnap" =>
    LET lo == call.minPx
        hi == call.total - call.minPx
        c1 == ClampTo(lo, hi, call.left + call.dx)
        expected == IF ~call.disableSnap /\ call.step > 0
                    THEN ClampTo(lo, hi, NearestMultiple(c1, call.step))
                    ELSE c1
    IN  /\ ret.newLeft = expected
        /\ ret.newRight = call.total - expected
        /\ (call.left = 200 /\ call.right = 200 /\ call.total = 400 /\ call.dx = 37
            /\ call.minPx = 60 /\ call.step = 8 /\ ~call.disableSnap)
              => (ret.newLeft = 240 /\ ret.newRight = 160)

\* C2 witness: the scenario of the claim has been computed.
C2_Witness ==
  /\ ret.fn = "applyDeltaWithSnap"
  /\ call.left = 200 /\ call.right = 200 /\ call.total = 400 /\ call.dx = 37
  /\ call.minPx = 60 /\ call.step = 8 /\ ~call.disableSnap
  /\ ret.newLeft = 240 /\ ret.newRight = 160

\* C3: for a non-empty pixel array, with entries below 1 counted as 1, the ratios
\* are all > 0, sum to 1, and ratio * total rounds back to the entry within 1
\* (total = the sum of the counted entries, the original total when all are >= 1).
C3_NormalizeRatios ==
  (ret.fn = "normalizeRatios" /\ Len(call.px) > 0) =>
    LET r == ret.ratios
        eff == [i \in DOMAIN call.px |-> IF call.px[i] < 1 THEN 1 ELSE call.px[i]]
        total == SumSeq(eff)
    IN  /\ Len(r.nums) = Len(call.px)
        /\ r.den > 0
        /\ \A i \in DOMAIN r.nums : r.nums[i] > 0
        /\ SumSeq(r.nums) = r.den
        /\ \A i \in DOMAIN r.nums : r.nums[i] * total = eff[i] * r.den
        /\ \A i \in DOMAIN r.nums : Abs(RatioTimesRound(r, i, total) - eff[i]) <= 1

\* C3 witness: a three-entry array with all entries >= 1 has been normalized.
C3_Witness ==
  /\ ret.fn = "normalizeRatios"
  /\ call.px = <<100, 150, 250>>
  /\ ret.ratios = [nums |-> <<2, 3, 5>>, den |-> 10]

\* floor(w[i] * T / sum(w))
ScaledFloor(w, T, i) == (w[i] * T) \div SumSeq(w)

\* The widths the claim describes: floors, the remainder on the last column.
FloorsWithRemainder(w, T) ==
  LET n == Len(w)
      fl == [i \in DOMAIN w |-> ScaledFloor(w, T, i)]
  IN  [fl EXCEPT ![n] = fl[n] + (T - SumSeq(fl))]

\* A call the outer handle can make: start widths at or above the minimum and a
\* target total at or above columnCount * minimum.
RealisticScaleCall ==
  /\ ret.fn = "computeNext" /\ call.mode = "scale"
  /\ \A i \in DOMAIN call.px : call.px[i] >= call.minPx
  /\ call.targetTotal >= Len(call.px) * call.minPx

\* C10 as stated: in scale mode each new width is floor(w[i] * T / sum(w)) with the
\* remainder added to the last column, and the new widths sum to T.
C10_Original ==
  RealisticScaleCall =>
    /\ ret.next = FloorsWithRemainder(call.px, call.targetTotal)
    /\ SumSeq(ret.next) = call.targetTotal

(***************************************************************************)
(* Claims about table identity (checked under SpecGeom)                    *)
(***************************************************************************)

\* C8: two identities with the same path whose fingerprints are equal up to a
\* surface suffix get the same key string, whatever their line ranges; identities
\* of different paths or different canonical fingerprints get different ones.
C8_CanonicalKeyDeterministic ==
  ret.fn = "canonicalKeyString" =>
    LET a == call.key1
        b == call.key2
        same == a.path = b.path
                /\ normalizeFingerprint(a.fingerprint) = normalizeFingerprint(b.fingerprint)
    IN  /\ same <=> (ret.k1 = ret.k2)
        /\ ret.k1.form = "pf" /\ ret.k1.lineStart = NoLine /\ ret.k1.lineEnd = NoLine

\* C8 witness: a reading-view identity and a live-edit identity with an index
\* suffix and another line range got the same key string.
C8_Witness ==
  /\ ret.fn = "canonicalKeyString"
  /\ call.key1 = TableKey("a.md", NoLine, NoLine, FpABC)
  /\ call.key2 = TableKey("a.md", 3, 5, FpABCidx)
  /\ ret.k1 = ret.k2
  /\ ret.k1 = KeyPfA

(***************************************************************************)
(* Claims about the sizing store (checked under SpecStore)                 *)
(***************************************************************************)

\* The record the store holds under key string k.
RecordAt(tables, h, k) == h[RefOf(tables, k)]

\* C6: once a committed record has reached the disk, a reload followed by a
\* resolution of any identity with the same canonical key finds the key by direct
\* lookup and the record under it equals the committed one, field by field.
C6_PersistReloadRoundTrip ==
  /\ (lastOp = "reload" /\ durable.some) =>
        \A key \in KeyInputs :
          canonicalKeyString(key) = durable.k =>
            LET r == findOrMigrateToCanonicalKey(dataStore, heap, key)
            IN  /\ r.key = durable.k
                /\ r.how = "hit"
                /\ RecordAt(r.ds.tables, r.heap, r.key) = durable.v
  /\ (/\ lastOp = "resolve" /\ durable.some /\ lastResolve.key = durable.k
      /\ used.reloads > 0 /\ used.renames = 0 /\ lastCommit = NoCommit) =>
        /\ lastResolve.how = "hit"
        /\ RecordAt(dataStore.tables, heap, lastResolve.key) = durable.v

\* C6 witness: a record with a table width was committed and flushed, the store was
\* reloaded, and the identity was resolved again to the committed record.
C6_Witness ==
  /\ lastOp = "resolve"
  /\ used.commits = 1 /\ used.reloads = 1 /\ used.renames = 0
  /\ lastCommit = NoCommit
  /\ durable.some /\ durable.v.tablePxWidth = 450
  /\ lastResolve.key = durable.k /\ lastResolve.how = "hit"
  /\ RecordAt(dataStore.tables, heap, durable.k) = durable.v

\* Entry i is a record of the identity of key under another key string.
IsLegacyOf(tables, i, key) ==
  /\ ~ParseThrows(tables[i].k)
  /\ tables[i].k.path = key.path
  /\ normalizeFingerprint(tables[i].k.fingerprint) = normalizeFingerprint(key.fingerprint)

\* C7: a resolution that finds no record under the canonical key but one under
\* another key of the same path and canonical fingerprint copies the most recent
\* such record to the canonical key, keeps every other entry and saves; a resolution
\* copies only when the canonical key is absent; and every resolution of a key a
\* record was copied to is a direct hit that neither scans nor changes nor saves.
C7_MigrateOnce ==
  [][ lastOp' = "resolve" =>
        LET key == lastResolve'.input
            canonical == lastResolve'.key
            t == dataStore.tables
            legacy == { i \in DOMAIN t : IsLegacyOf(t, i, key) }
        IN  /\ canonical = canonicalKeyString(key)
            /\ (~HasKey(t, canonical) /\ legacy # {}) =>
                  /\ lastResolve'.how = "migrated"
                  /\ dataStore'.tables = Append(t, [k |-> canonical,
                                                    ref |-> RefOf(dataStore'.tables, canonical)])
                  /\ \E i \in legacy :
                        /\ RecordAt(dataStore'.tables, heap', canonical) = heap[t[i].ref]
                        /\ \A j \in legacy : heap[t[j].ref].updatedAt <= heap[t[i].ref].updatedAt
                  /\ Len(inflight') = Len(inflight) + 1
                  /\ canonical \in migrated'
            /\ lastResolve'.how = "migrated" => (~HasKey(t, canonical) /\ canonical \notin migrated)
            /\ canonical \in migrated =>
                  /\ lastResolve'.how = "hit" /\ ~lastResolve'.scanned
                  /\ dataStore' = dataStore /\ heap' = heap /\ inflight' = inflight
    ]_vars

\* C7 witness: a key a legacy record was copied to has been resolved again, by
\* direct lookup, with the legacy entries still in the store.
C7_Witness ==
  /\ lastOp = "resolve"
  /\ lastResolve.how = "hit" /\ ~lastResolve.scanned
  /\ lastResolve.key \in migrated
  /\ lastResolve.key = KeyPfA
  /\ HasKey(dataStore.tables, KeyFullA1) /\ HasKey(dataStore.tables, KeyFullA2)
  /\ RecordAt(dataStore.tables, heap, KeyPfA) = StoredNew

(***************************************************************************)
(* Claims about binding a table element (checked under Spec)               *)
(***************************************************************************)

\* C4 as stated: a bind of a laid-out, bound table that directly follows a bind of
\* the same table leaves the column widths as the first bind set them.
C4_Original ==
  [][ (lastOp = "bind" /\ lastOp' = "bind" /\ table.bound /\ env.natW > 0) =>
        table'.cols = table.cols ]_vars

\* C5: a bound element stays bound; a bind notification for a bound element changes
\* only column widths, table width, the managed mark and the breakout of the
\* element, adds no handle, listener or observer, issues no save and leaves the
\* store as it is; a bound element carries the handlers of exactly one bind.
C5_BoundOnce ==
  [][ /\ table.bound => table'.bound
      /\ table'.bound =>
            /\ table'.handles = HandlesOf(table')
            /\ table'.listeners = ListenersOf(table')
            /\ table'.observers = 2 + (IF table'.percentRO # NoRatios THEN 1 ELSE 0)
      /\ (table.bound /\ lastOp' \in {"bind", "intersect"}) =>
            /\ table' = [table EXCEPT !.cols = table'.cols, !.styleW = table'.styleW,
                                      !.managed = table'.managed,
                                      !.breakout = table'.breakout]
            /\ table'.cols \in { table.cols,
                                 ApplyStoredPx(Lookup(dataStore, heap, table.resolvedKeyStr),
                                               table, env).cols }
            /\ dataStore' = dataStore /\ heap' = heap /\ inflight' = inflight
            /\ sched'.rafs <= sched.rafs + 1
    ]_vars

\* C5 witness: the last step was a bind notification that scheduled nothing, which
\* only a notification for an already bound element does, and the element carries
\* one set of handlers.
C5_Witness ==
  /\ lastOp = "bind"
  /\ table.bound
  /\ ~sched.rafSet
  /\ table.cols.unit = "px"
  /\ table.listeners = ListenersOf(table)

\* The header texts of a fingerprint "n:h1|h2|...".
HeadersOfFingerprint(fp) ==
  LET body == normalizeFingerprint(fp)
      n == (Len(body) - 1) \div 2
  IN  [i \in 1 .. n |-> body[2 * i + 1]]

\* Round(ratio * lastPxWidth) of a stored record.
RecordWidths(rec) == [i \in DOMAIN rec.ratios.nums |-> RatioTimesRound(rec.ratios, i, rec.lastPxWidth)]

\* Left-to-right alignment: a live header equal to the next unconsumed historical
\* header takes its width, any other live header takes the minimum.
RECURSIVE AlignColumns(_, _, _, _)
AlignColumns(histHeaders, histWidths, liveHeaders, minPx) ==
  IF liveHeaders = <<>> THEN <<>>
  ELSE IF histHeaders # <<>> /\ Head(liveHeaders) = Head(histHeaders)
  THEN <<Head(histWidths)>> \o AlignColumns(Tail(histHeaders), Tail(histWidths),
                                           Tail(liveHeaders), minPx)
  ELSE <<minPx>> \o AlignColumns(histHeaders, histWidths, Tail(liveHeaders), minPx)

\* C9 as stated: when the store holds the record of headers [A,B,C] with widths
\* [100,150,250] for the path, a bind of the laid-out live table [A,X,B,C] sets the
\* column widths [100, min, 150, 250].
C9_Original ==
  (/\ lastOp = "bind" /\ table.bound /\ env.natW > 0
   /\ table.headers = HeaderAXBC
   /\ HasKey(dataStore.tables, KeyFullA2)
   /\ RecordAt(dataStore.tables, heap, KeyFullA2) = StoredNew
   /\ KeyFullA2.path = table.path) =>
     table.cols = [unit |-> "px",
                   w |-> AlignColumns(HeadersOfFingerprint(KeyFullA2.fingerprint),
                                      RecordWidths(StoredNew), table.headers,
                                      minColumnWidthPx)]

(***************************************************************************)
(* Claims about the breakout evaluation (checked under Spec)               *)
(***************************************************************************)

\* C11: a breakout evaluation (animation frame or pane observer) of a visible,
\* active table whose pane and line widths are measurable applies the breakout
\* styling of its host exactly when max(intrinsic width, style width) is greater
\* than lineWidth + 1, and otherwise leaves no breakout style or class behind.
C11_OverflowDecision ==
  [][ (lastOp' = "breakout" /\ env.natW > 0 /\ ~table.inactive /\ env.lineW > 0) =>
        IF Max(RectWidth(table, env), table.styleW) > env.lineW + 1
        THEN /\ table.host = "cm6" => CmBreakoutStyles \subseteq table'.breakout
             /\ table.host # "cm6" => ReadingBreakoutStyles \subseteq table'.breakout
        ELSE table'.breakout \ {CenteredMark} = {}
    ]_vars

\* C11 witness: the last step was an evaluation that found the table fitting the
\* line, and the container carries the mark of an earlier breakout whose styles
\* are all gone.
C11_Witness ==
  /\ lastOp = "breakout"
  /\ env.natW > 0 /\ env.lineW > 0
  /\ table.bound
  /\ CenteredMark \in table.breakout
  /\ table.breakout = {CenteredMark}
  /\ table.styleW = 0

(***************************************************************************)
(* C12: with requireAltToDrag enabled, a pointer drag started without Alt   *)
(* on a column, row or outer handle starts no drag: after such a            *)
(* pointerdown no drag is active.                                           *)
(***************************************************************************)
C12_Original ==
  (lastOp = "pointerdown" /\ settings.requireAltToDrag /\ ~event.alt) => drag.kind = "none"

(***************************************************************************)
(* C13: Enter or Space on the handle of a row that has an explicit height   *)
(* clears it: the row has no explicit height after the keydown.             *)
(***************************************************************************)
C13_Original ==
  [][ ( /\ lastOp' = "keydown" /\ event'.kind = "row"
        /\ event'.key \in {"Enter", " "}
        /\ event'.index \in DOMAIN table.rowHeights )
      => event'.index \notin DOMAIN table'.rowHeights ]_vars

(***************************************************************************)
(* C14: after any sequence of resize operations on a bound table, every     *)
(* column's pixel width is at least minColumnWidthPx.                       *)
(***************************************************************************)
C14_MinWidth ==
  (table.bound /\ table.cols.unit = "px") =>
    \A i \in DOMAIN table.cols.w : table.cols.w[i] >= minColumnWidthPx

\* A column drag pushed the left column of a pair down to the minimum (or the
\* snap step next to it).
C14_Witness ==
  /\ lastOp = "pointermove" /\ drag.kind = "col"
  /\ drag.leftWidth > minColumnWidthPx + snapStepPx
  /\ table.cols.w[drag.index + 1] <= minColumnWidthPx + snapStepPx

(***************************************************************************)
(* C15: with doubleClickAction "none", a double click on a column handle    *)
(* and Enter or Space on it leave the column widths and the stored record   *)
(* of the table unchanged.                                                  *)
(***************************************************************************)
C15_Original ==
  [][ ( /\ settings.doubleClickAction = "none" /\ event'.kind = "col"
        /\ \/ lastOp' = "dblclick"
           \/ lastOp' = "keydown" /\ event'.key \in {"Enter", " "} )
      => /\ table'.cols = table.cols
         /\ Lookup(dataStore', heap', table.resolvedKeyStr)
              = Lookup(dataStore, heap, table.resolvedKeyStr) ]_vars

(***************************************************************************)
(* C16: every record of the store has ratios that are all positive and sum  *)
(* to 1, and once a table of N >= 2 columns is bound the record under its   *)
(* resolved key has N ratios.                                               *)
(***************************************************************************)
C16_RatiosValid ==
  /\ \A i \in DOMAIN dataStore.tables :
       LET ratios == heap[dataStore.tables[i].ref].ratios
       IN  /\ \A j \in DOMAIN ratios.nums : ratios.nums[j] > 0
           /\ ratios.den > 0
           /\ SumSeq(ratios.nums) = ratios.den
  /\ (table.bound /\ ColCount(table) >= 2) =>
       Len(Lookup(dataStore, heap, table.resolvedKeyStr).ratios.nums) = ColCount(table)

\* A column drag ended and stored ratios other than those the table was bound with.
C16_Witness ==
  /\ lastOp = "pointerup" /\ event.kind = "col"
  /\ lastCommit.some /\ lastCommit.k = table.resolvedKeyStr
  /\ Lookup(dataStore, heap, table.resolvedKeyStr).ratios # table.storedRatios
  /\ Len(Lookup(dataStore, heap, table.resolvedKeyStr).ratios.nums) = 3

(***************************************************************************)
(* C17: a bind of a laid-out table that finds a usable record under the     *)
(* table's key sets the column widths to max(min, round(ratio * baseWidth)), *)
(* where baseWidth is the record's tablePxWidth when that is positive and   *)
(* the width of the table before the bind otherwise.                        *)
(***************************************************************************)
C17_Original ==
  [][ LET k == table'.resolvedKeyStr
          stored == Lookup(dataStore, heap, k)
      IN  ( /\ lastOp' = "bind" /\ env.natW > 0 /\ table'.bound
            /\ stored # NoStored
            /\ stored = Lookup(dataStore', heap', k)
            /\ Len(stored.ratios.nums) = ColCount(table) )
          => table'.cols.w = RatiosToPx(stored.ratios,
                                        IF stored.tablePxWidth > 0 THEN stored.tablePxWidth
                                        ELSE RectWidth(table, env)) ]_vars

(***************************************************************************)
(* C18: reset on a column handle (double click, or Enter or Space, with     *)
(* doubleClickAction "reset") splits the pair's combined width evenly and   *)
(* leaves the pair's sum and the other columns unchanged.                   *)
(***************************************************************************)
ResetStep ==
  /\ settings.doubleClickAction = "reset" /\ event'.kind = "col"
  /\ \/ lastOp' = "dblclick"
     \/ lastOp' = "keydown" /\ event'.key \in {"Enter", " "}

OuterTargeted ==
  /\ table.bound /\ event.kind = "outer"
  /\ \/ event.type = "pointermove"
     \/ event.type = "keydown" /\ event.key \in {"ArrowLeft", "ArrowRight"}

\* As stated, for every setting of the maximum.
C19_Original ==
  OuterTargeted =>
    /\ event.target >= ColCount(table) * minColumnWidthPx
    /\ settings.outerMaxWidthPx > 0 => event.target <= settings.outerMaxWidthPx

\* As computed: the bounds hold when the maximum is 0 or at least the minimum
\* total; a positive maximum below the minimum total is the target itself.
C19_TargetClamped ==
  OuterTargeted =>
    IF 0 < settings.outerMaxWidthPx
       /\ settings.outerMaxWidthPx < ColCount(table) * minColumnWidthPx
    THEN event.target = settings.outerMaxWidthPx
    ELSE /\ event.target >= ColCount(table) * minColumnWidthPx
         /\ settings.outerMaxWidthPx > 0 => event.target <= settings.outerMaxWidthPx

\* An outer drag past a maximum above the minimum total: the target is the maximum.
C19_Witness ==
  /\ OuterTargeted /\ event.type = "pointermove"
  /\ settings.outerMaxWidthPx > ColCount(table) * minColumnWidthPx
  /\ event.target = settings.outerMaxWidthPx

(***************************************************************************)
(* C20: in edge mode the delta to the target is split between the first and *)
(* the last column only, an integer half to the first and the rest to the   *)
(* last; the other columns keep their width and the widths sum to the       *)
(* target.  Stated for the calls the handle makes: start widths at least    *)
(* the minimum, a target of at least colCount * min.                        *)
(***************************************************************************)
RealisticEdgeCall ==
  /\ ret.fn = "computeNext" /\ call.mode = "edge"
  /\ Len(call.px) >= 2
  /\ \A i \in DOMAIN call.px : call.px[i] >= call.minPx
  /\ call.targetTotal >= Len(call.px) * call.minPx

C20_Original ==
  RealisticEdgeCall =>
    LET n == Len(call.px)
        delta == call.targetTotal - SumSeq(call.px)
    IN  /\ \A i \in 2 .. (n - 1) : ret.next[i] = call.px[i]
        /\ \E half \in {MathFloor(delta, 2), delta - MathFloor(delta, 2)} :
             /\ ret.next[1] = call.px[1] + half
             /\ ret.next[n] = call.px[n] + (delta - half)
        /\ SumSeq(ret.next) = call.targetTotal

(***************************************************************************)
(* Claims about the coalesced outer drag (checked under SpecOuterDrag)      *)
(***************************************************************************)

C22_Original ==
  (lastOp = "pointerup" /\ event.kind = "col") =>
    LET rec == Lookup(dataStore, heap, table.resolvedKeyStr)
    IN  /\ rec.ratios = normalizeRatios(table.cols.w)
        /\ rec.lastPxWidth = RectWidth(table, env)

(***************************************************************************)
(* C23: a row-height commit (release of a row drag, or a row key that was   *)
(* handled) changes, in the table's record, the entry of that row only: the *)
(* stored heights of the other rows and the ratios stay as they were        *)
(* (checked under SpecResize).                                              *)
(***************************************************************************)
C23_RowOnly ==
  [][ ( /\ event'.kind = "row" /\ lastOp' \in {"pointerup", "keydown"}
        /\ HasKey(dataStore.tables, table.resolvedKeyStr) )
      => LET old == Lookup(dataStore, heap, table.resolvedKeyStr)
             new == Lookup(dataStore', heap', table.resolvedKeyStr)
         IN  /\ new.ratios = old.ratios
             /\ DOMAIN new.rowHeights \subseteq DOMAIN old.rowHeights \cup {event'.index}
             /\ \A j \in DOMAIN old.rowHeights \ {event'.index} :
                  j \in DOMAIN new.rowHeights /\ new.rowHeights[j] = old.rowHeights[j] ]_vars

\* The drag of row 1 was stored next to the height the record had for row 0.
C23_Witness ==
  /\ lastOp = "pointerup" /\ event.kind = "row" /\ event.index = 1
  /\ LET rec == Lookup(dataStore, heap, table.resolvedKeyStr)
     IN  /\ DOMAIN rec.rowHeights = {0, 1}
         /\ rec.rowHeights[0] = 40
         /\ rec.rowHeights[1] # 40

(***************************************************************************)
(* C24: a file rename oldPath -> newPath rewrites the path of every entry  *)
(* whose path is oldPath, leaves every other entry's key and record as     *)
(* they were and loses no record: the store holds as many entries after    *)
(* the rename as before, also when entries of newPath exist already or a   *)
(* key does not parse.                                                     *)
(***************************************************************************)
Renamed(tables, h, tables2, h2, newPath, oldPath) ==
  /\ Len(tables2) = Len(tables)
  /\ \A i \in DOMAIN tables :
       LET k2 == IF tables[i].k.path = oldPath THEN [tables[i].k EXCEPT !.path = newPath]
                 ELSE tables[i].k
       IN  \E j \in DOMAIN tables2 : tables2[j].k = k2 /\ h2[tables2[j].ref] = h[tables[i].ref]

C24_Original ==
  [][ lastOp' = "rename" =>
        \E p \in RenameInputs :
          Renamed(dataStore.tables, heap, dataStore'.tables, heap', p[1], p[2]) ]_vars

(***************************************************************************)
(* C25: the legacy migration selects, among all entries whose key parses   *)
(* to the path and the canonical fingerprint of the table, the one with    *)
(* the greatest updatedAt, puts its record under the canonical key and     *)
(* leaves every entry that was in the store in place; an entry whose key   *)
(* does not parse is skipped and the scan goes on.                         *)
(***************************************************************************)
C25_MigrateBest ==
  [][ lastOp' = "resolve" =>
        LET key == lastResolve'.input
            canonical == canonicalKeyString(key)
            t == dataStore.tables
            t2 == dataStore'.tables
            legacy == { i \in DOMAIN t : IsLegacyOf(t, i, key) }
        IN  /\ (~HasKey(t, canonical) /\ legacy # {}) =>
                  /\ HasKey(t2, canonical)
                  /\ \E i \in legacy :
                        /\ heap'[RefOf(t2, canonical)] = heap[t[i].ref]
                        /\ \A j \in legacy : heap[t[j].ref].updatedAt <= heap[t[i].ref].updatedAt
            /\ \A i \in DOMAIN t :
                  /\ i \in DOMAIN t2 /\ t2[i].k = t[i].k
                  /\ heap'[t2[i].ref] = heap[t[i].ref]
            /\ (HasKey(t, canonical) \/ legacy = {}) => t2 = t
    ]_vars

\* C25 witness: a record has been migrated from a legacy entry that follows an entry
\* whose key does not parse; both entries are still in the store.
C25_Witness ==
  /\ lastOp = "resolve" /\ lastResolve.how = "migrated"
  /\ Len(dataStore.tables) = 3
  /\ dataStore.tables[1].k = BadKeyString
  /\ dataStore.tables[2].k = KeyPfAidx
  /\ dataStore.tables[3].k = KeyPfA
  /\ heap[dataStore.tables[3].ref] = StoredNew
  /\ heap[dataStore.tables[2].ref] = StoredNew

(***************************************************************************)
(* Settings and table data in one payload                                  *)
(***************************************************************************)
SettingsDisks ==
  { NoData,
    DiskOf(<<[k |-> KeyPfA, v |-> StoredWide]>>),
    [DiskOf(<<[k |-> KeyPfA, v |-> StoredOld]>>) EXCEPT
       !.settingsProp = SettingsProp(DEFAULT_SETTINGS)] }

InitSettings ==
  /\ call = NoCall /\ ret = NoRet
  /\ disk \in SettingsDisks
  /\ dataStore = loadDataStore(disk).ds
  /\ heap = loadDataStore(disk).heap
  /\ inflight = <<>>
  /\ now = 2
  /\ table = NoTable /\ env = NoEnv /\ sched = NoSched
  /\ settings = loadSettings(disk) /\ drag = NoDrag /\ event = NoEvent
  /\ InitHist

NextSettings ==
  \/ Resolve(TableKey("a.md", 3, 5, FpABC))
  \/ \E c \in CommitInputs : CommitSizes(c.ratios, c.lastPxWidth, c.tablePxWidth)
  \/ \E s \in SettingsInputs : ChangeSetting(s)
  \/ FlushOk
  \/ FlushFail
  \/ Reload

SpecSettings == InitSettings /\ [][NextSettings]_vars

(***************************************************************************)
(* Claims about the scheduling of breakout evaluations (checked under      *)
(* SpecBreakout)                                                           *)
(***************************************************************************)
\* The host has no width: ctx.paneWidth <= 0 || ctx.lineWidth <= 0.
Unmeasurable(e) == PaneWidth(e) <= 0 \/ e.lineW <= 0

\* The table is laid out and not parked, so that an evaluation measures the host.
Evaluable == env.natW > 0 /\ ~table.inactive

\* The last step was an evaluation that found the host without width and gave up:
\* it reset the attempt counter.
GaveUp == lastOp = "breakout" /\ Evaluable /\ Unmeasurable(env) /\ sched.retries = 0

\* The parts of C26 about one evaluation: without a host width the breakout styling
\* stays as it is; below five attempts the counter goes up by one and a retry is
\* requested with the delay 10, 20, 40, 80, 100 of the attempt (the request is
\* absorbed when a frame is pending already); at five attempts the counter is
\* reset and nothing is scheduled; a measurement that succeeds resets the counter.
EvaluationStep ==
  ((BreakoutFrame \/ PaneObserver) /\ Evaluable) =>
     IF Unmeasurable(env)
     THEN /\ table' = table
          /\ sched.retries < 5 =>
                /\ sched'.retries = sched.retries + 1
                /\ \/ sched.rafSet /\ PaneObserver /\ sched'.timers = sched.timers
                   \/ /\ sched'.timers = sched.timers + 1
                      /\ sched'.delay = RetryDelay(sched.retries)
                      /\ sched'.delay = << 10, 20, 40, 80, 100 >>[sched.retries + 1]
          /\ sched.retries >= 5 =>
                /\ sched'.retries = 0
                /\ sched'.timers = sched.timers /\ sched'.rafs <= sched.rafs
     ELSE sched'.retries = 0

\* C26 as stated: a breakout evaluation that finds the pane or the line without width
\* leaves the breakout styling unchanged and schedules a retry; consecutive failed
\* evaluations schedule at most five retries, with delays 10, 20, 40, 80, 100 ms;
\* after that no retry is scheduled until an external trigger; a successful
\* measurement resets the attempt counter.
C26_Original ==
  [][ /\ EvaluationStep
      /\ (GaveUp /\ BreakoutFrame) => sched'.timers = sched.timers ]_vars

\* C28 as stated: at most one breakout evaluation is pending for the table at any
\* time, counting a frame that was requested and a request still waiting on its
\* delay timer; a schedule request made while one is pending changes nothing.
C28_Original == sched.timers + sched.rafs <= 1

(***************************************************************************)
(* C27: the retry loops end.  If from some point on the host stays without *)
(* width and no notification arrives any more (only timers and frames of   *)
(* the retries run), then eventually no timer and no frame of a breakout   *)
(* evaluation is pending, whatever notifications started retries before.   *)
(***************************************************************************)
NoRetryPending == sched.timers = 0 /\ sched.rafs = 0

C27_RetriesEnd ==
  (<>[][RetryFrame \/ RetryTimer]_vars /\ <>[]Unmeasurable(env)) => <>[]NoRetryPending

\* C27 witness: an evaluation has found the host without width with the five
\* attempts used up, and has left nothing pending.
C27_Witness ==
  /\ GaveUp /\ NoRetryPending
  /\ table.bound /\ ~sched.layoutPending

(***************************************************************************)
(* C29: in Live Preview, when the desired width exceeds the available pane *)
(* width, the scroll position of the container is centered exactly once    *)
(* per overflow episode: not again on later evaluations of the episode,    *)
(* once again in a new episode that begins after the overflow was cleared, *)
(* and never while an outer drag is active.                                *)
(***************************************************************************)
\* The evaluation of this step makes the container scrollable: desired > paneAvail + 1.
ScrollableEvaluation ==
  /\ BreakoutFrame \/ PaneObserver
  /\ Evaluable /\ ~Unmeasurable(env) /\ table.host = "cm6"
  /\ Max(RectWidth(table, env), table.styleW) > Max(0, PaneWidth(env) - 2 * bleedGutterPx) + 1

\* The step assigns scrollLeft: the container was not marked and is marked now.
ScrollCentered == CenteredMark \notin table.breakout /\ CenteredMark \in table'.breakout

\* C29 as stated; an episode begins when the container carries no breakout style,
\* the evaluation before having cleared them.
C29_Original ==
  [][ ScrollableEvaluation =>
        /\ sched.outerDragActive => ~ScrollCentered
        /\ CenteredMark \in table'.breakout \/ sched.outerDragActive
        /\ (~sched.outerDragActive /\ table.breakout \cap CmBreakoutStyles = {}) => ScrollCentered
    ]_vars

(***************************************************************************)
(* C30: between the pointerdown on the outer handle and the release no     *)
(* step applies, changes or clears the breakout styling of the table; the  *)
(* release has the breakout recomputed once.                               *)
(***************************************************************************)
C30_Original ==
  [][ /\ (sched.outerDragActive /\ sched'.outerDragActive) => table'.breakout = table.breakout
      /\ (sched.outerDragActive /\ ~sched'.outerDragActive) => sched'.rafs + sched'.timers = 1
    ]_vars

(***************************************************************************)
(* C31: a first bind that finds a usable record but no container width     *)
(* applies the ratios as percentages and arms a one-shot re-measurement;   *)
(* an observation of width 0 leaves it armed and the widths as they are,   *)
(* the first observation of a width above 0 converts the columns to pixels *)
(* and disarms it, and once disarmed it is never armed again.              *)
(***************************************************************************)
C31_PercentFallback ==
  [][ /\ ( /\ ~table.bound /\ table'.bound
           /\ Len(table'.storedRatios.nums) = ColCount(table)
           /\ RectWidth(table, env) <= 0 ) =>
            /\ table'.cols = applyRatiosAsPercent(table'.storedRatios)
            /\ table'.percentRO = table'.storedRatios
            /\ table'.observers = 3
      /\ PercentObserver =>
            IF RectWidth(table, env) > 0
            THEN /\ table'.cols = applyColWidths(RatiosToPx(table.percentRO, RectWidth(table, env)))
                 /\ table'.cols.unit = "px"
                 /\ table'.percentRO = NoRatios
                 /\ table'.observers = table.observers - 1
            ELSE table' = table
      /\ (table.bound /\ table.percentRO = NoRatios) =>
            /\ table'.percentRO = NoRatios
            /\ ~PercentObserver
    ]_vars

\* C31 witness: a table bound without container width has had its percentages
\* converted to pixels by the observer, which is disconnected.
C31_Witness ==
  /\ lastOp = "dom"
  /\ table.bound /\ table.containerWidth = 0
  /\ Len(table.storedRatios.nums) = ColCount(table)
  /\ table.percentRO = NoRatios /\ table.observers = 2
  /\ RectWidth(table, env) > 0
  /\ table.cols = applyColWidths(RatiosToPx(table.storedRatios, RectWidth(table, env)))

(***************************************************************************)
(* C32: getLatestForPath(path) returns the entry with the greatest         *)
(* updatedAt among the entries whose key has that path, whatever their     *)
(* fingerprint, and returns null exactly when no entry has that path.      *)
(***************************************************************************)
C32_LatestForPath ==
  (lastOp = "latest") =>
     LET path == call.key1.path
         t == dataStore.tables
         ofPath == { i \in DOMAIN t : ~ParseThrows(t[i].k) /\ t[i].k.path = path }
     IN  /\ (ret.k1 = BadKeyString) <=> (ofPath = {})
         /\ ofPath # {} =>
               \E i \in ofPath :
                 /\ ret.k1 = t[i].k
                 /\ ret.ratios = heap[t[i].ref].ratios
                 /\ ret.newLeft = heap[t[i].ref].updatedAt
                 /\ \A j \in ofPath : heap[t[j].ref].updatedAt <= heap[t[i].ref].updatedAt

\* C32 witness: of two entries of a.md with different fingerprints and line ranges
\* the one updated last was returned, although it comes first in the store.
C32_Witness ==
  /\ lastOp = "latest" /\ call.key1.path = "a.md"
  /\ Len(dataStore.tables) >= 2
  /\ dataStore.tables[1].k = KeyFullA2 /\ dataStore.tables[2].k = KeyFullA1
  /\ ret.k1 = KeyFullA2
  /\ heap[dataStore.tables[2].ref].updatedAt <= heap[dataStore.tables[1].ref].updatedAt

(***************************************************************************)
(* C33: a save that fails is not retried and leaves the store in memory as *)
(* it is: the record committed last is still under its key, and a later    *)
(* resolution of that key in the same session finds it by direct lookup.   *)
(***************************************************************************)
C33_OptimisticCommit ==
  [][ /\ lastOp' = "flushfail" =>
            /\ dataStore' = dataStore /\ heap' = heap /\ disk' = disk
            /\ inflight' = Tail(inflight)
      /\ (lastCommit.some /\ lastOp' \in {"flushfail", "flush", "resolve", "latest"}) =>
            /\ lastCommit' = lastCommit
            /\ Lookup(dataStore', heap', lastCommit.k) = lastCommit.v
            /\ (lastOp' = "resolve" /\ lastResolve'.key = lastCommit.k) =>
                  lastResolve'.how = "hit"
    ]_vars

\* C33 witness: the save of a commit failed (nothing is outstanding and the disk
\* does not hold the commit), and the key was then resolved to the committed record.
C33_Witness ==
  /\ lastOp = "resolve" /\ lastResolve.how = "hit"
  /\ lastCommit.some /\ lastResolve.key = lastCommit.k
  /\ inflight = <<>> /\ durable # lastCommit
  /\ Lookup(dataStore, heap, lastCommit.k) = lastCommit.v
  /\ ~(\E i \in DOMAIN disk.tables : disk.tables[i].v = lastCommit.v)

(***************************************************************************)
(* C34 as stated: saving table data never drops or reverts persisted       *)
(* settings.  Once the payload on disk holds the settings in use, it still *)
(* holds them after every later flush, and a reload yields them.           *)
(***************************************************************************)
C34_Original ==
  [][ /\ ( /\ disk.settingsProp = SettingsProp(settings)
           /\ lastOp' \in {"flush", "flushfail"} ) =>
            disk'.settingsProp = SettingsProp(settings)
      /\ ( /\ disk.settingsProp = SettingsProp(settings)
           /\ lastOp' = "reload" ) => settings' = settings
    ]_vars

(***************************************************************************)
(* C35 as stated: a commit of a column handle (drag, keyboard, autofit,    *)
(* reset) or of the outer handle leaves the row heights of the table's     *)
(* record as they were persisted.                                          *)
(***************************************************************************)
C35_Original ==
  [][ ( /\ event'.kind \in {"col", "outer"}
        /\ lastOp' \in {"pointerup", "keydown", "dblclick"}
        /\ HasKey(dataStore.tables, table.resolvedKeyStr) ) =>
          Lookup(dataStore', heap', table.resolvedKeyStr).rowHeights
            = Lookup(dataStore, heap, table.resolvedKeyStr).rowHeights
    ]_vars

(***************************************************************************)
(* A table whose record is stored under a key of an earlier format: the    *)
(* bind migrates it to the canonical key, then the handles commit.         *)
(***************************************************************************)
LegacyDisks ==
  { DiskOf(<<[k |-> KeyFullA1, v |-> StoredOdd]>>),
    DiskOf(<<[k |-> KeyFullA1, v |-> StoredOld], [k |-> KeyFullA2, v |-> StoredNew]>>) }

InitLegacy ==
  /\ call = NoCall /\ ret = NoRet
  /\ disk \in LegacyDisks
  /\ dataStore = loadDataStore(disk).ds
  /\ heap = loadDataStore(disk).heap
  /\ inflight = <<>>
  /\ now = 2
  /\ table = RenderedTable(HeaderABC, TRUE, "reading")
  /\ env \in ResizeEnvInputs
  /\ sched = NoSched
  /\ settings \in SettingsInputs /\ drag = NoDrag /\ event = NoEvent
  /\ InitHist

NextLegacy ==
  \/ \E l \in LineInputs : Bind(l[1], l[2])
  \/ \E i \in ColIndexInputs, fit \in AutofitInputs : ColDblClick(i, fit)
  \/ \E k \in OuterKeyInputs : OuterKeyDown(k[1], k[2])
  \/ \E r \in RowIndexInputs, alt \in BOOLEAN : RowPointerDown(r, alt)
  \/ \E dy \in RowMoveInputs : RowPointerMove(dy)
  \/ RowPointerUp
  \/ \E r \in RowIndexInputs, k \in RowKeyInputs : RowKeyDown(r, k[1], k[2])
  \/ FlushOk

SpecLegacy == InitLegacy /\ [][NextLegacy]_vars

\* The keys of the store other than the bound table's.
OtherKeys == { dataStore.tables[i].k : i \in DOMAIN dataStore.tables } \ {table.resolvedKeyStr}

(***************************************************************************)
(* C36 as stated: once the migration has copied a record to the canonical  *)
(* key, a commit under the canonical key (a row-height commit included)    *)
(* leaves the record under every legacy key as it was.                     *)
(***************************************************************************)
C36_Original ==
  [][ ( /\ table.bound
        /\ table.resolvedKeyStr \in migrated
        /\ lastOp' \in {"pointerup", "keydown", "dblclick"}
        /\ dataStore' # dataStore \/ heap' # heap ) =>
          \A k \in OtherKeys :
            Lookup(dataStore', heap', k) = Lookup(dataStore, heap, k)
    ]_vars

(***************************************************************************)
(* C37 as stated: after a rename of the path a bound table was resolved    *)
(* with (no key was resolved since the rename), the table's resize commit  *)
(* is stored under a key of the new path, and the store holds no key of    *)
(* the old path after it.                                                  *)
(***************************************************************************)
C37_Original ==
  [][ ( /\ call.fn = "onFileRename"
        /\ lastResolve.how # "none"
        /\ lastResolve.key.path = call.key2.path
        /\ call.key1.path # call.key2.path
        /\ \A i \in DOMAIN dataStore.tables : ~ParseThrows(dataStore.tables[i].k)
        /\ lastOp' = "commit" ) =>
          /\ lastCommit'.k.path = call.key1.path
          /\ \A i \in DOMAIN dataStore'.tables :
                dataStore'.tables[i].k.path # call.key2.path
    ]_vars

\* An evaluation that measures the host and finds the table, at the larger of its
\* layout width and its style width, not wider than the readable line.
NotOverflowing ==
  /\ Evaluable /\ ~Unmeasurable(env)
  /\ ~IsOverflowing(Max(RectWidth(table, env), table.styleW), env.lineW)

(***************************************************************************)
(* C38 as stated: a breakout evaluation that finds the table not           *)
(* overflowing removes the breakout styling and leaves the width set on    *)
(* the table (from tablePxWidth or by the outer handle) in place.          *)
(***************************************************************************)
C38_Original ==
  [][ (lastOp' = "breakout" /\ NotOverflowing /\ table.styleW > 0) =>
         /\ table'.breakout \cap ClearedStyles = {}
         /\ table'.styleW = table.styleW
    ]_vars

====
